---- MODULE Spec2Model ----
(***************************************************************************)
(* The per-project step pipeline of IdeaGenius: the project store of the   *)
(* main process (DatabaseService and its IPC handlers), the useDatabase    *)
(* hook of the renderer (the in-memory project list and the operations     *)
(* completeStep, updateStepContent, updateProject) and the App components  *)
(* that drive them (ProjectWorkspace, StepNavigation, StepChangeWarning).  *)
(***************************************************************************)
EXTENDS Integers, Sequences, FiniteSets, TLC

(* ------------------------------ bounds --------------------------------- *)

\* Number of distinct content objects a step component can hand over.
MaxContent == 2
\* Number of external model calls that can be outstanding at once.
MaxCalls == 2

\* The auto-saved field values are 0..MaxFieldValue.
MaxFieldValue == 2
\* updateProject calls outstanding at a time.
MaxInFlight == 2
\* Timeouts set by registerField in a run.
MaxTimers == 3
\* onSave calls outstanding at a time.
MaxSaves == 2

\* The two auto-saved fields of InputAnalysis.
AutoSaveKeys == {"projectName", "textInput"}

FieldValues == 0..MaxFieldValue

\* useAutoSaveField: initialValueRef, the value of the field's first render.
InitialFieldValue == 0

(* ------------------------- program constants --------------------------- *)

\* The five default steps of db-create-project.
NumSteps == 5
\* The number of steps of a project created before step 5 existed.
LegacySteps == 4

\* The pipeline of one project is followed: the store holds the legacy project
\* or the project the user creates, under this id.
ProjectIds == {1}
Contents == 1..MaxContent

\* An optional value (a nullable reference): None, or Some(x).
None == <<>>
Some(x) == <<x>>

(* ------------------------- content conversion -------------------------- *)

\* UIProjectStep.content: undefined, or a content object.
Undefined == <<>>
Obj(c) == <<c>>
\* project_steps.content: NULL, or the JSON text of an object.
Null == <<"NULL">>

\* updateProject: content: step.content ? JSON.stringify(step.content) : undefined
Stringify(content) ==
  IF content = Undefined THEN Null ELSE <<"json", content[1]>>

\* convertToUIProject: content: step.content ? JSON.parse(step.content) : undefined
Parse(text) ==
  IF text = Null THEN Undefined ELSE <<text[2]>>

(* ------------------------------ the store ------------------------------ *)

\* `${project.id}_step_${n}`
StepId(pid, n) == <<pid, n>>
\* A step id that belongs to no project.
ForeignStepId == <<0, 0>>
\* step.id.includes('step_n')
IdIncludesStep(id, n) == id[2] = n

\* A step row as db-create-project and db-get-all-projects build it to insert:
\* pending, no content.
NewStepRow(pid, n, title) ==
  [id |-> StepId(pid, n), project_id |-> pid, title |-> title,
   status |-> "pending", step_order |-> n, content |-> Null]

\* createProject(name = 'New Project'), which App.handleCreateProject calls without a name.
NewProjectName == "New Project"

\* db-create-project: defaultSteps
DefaultSteps(pid) ==
  <<NewStepRow(pid, 1, "Input Analysis"),
    NewStepRow(pid, 2, "Idea Generation"),
    NewStepRow(pid, 3, "Idea Refinement"),
    NewStepRow(pid, 4, "PRD Generation"),
    NewStepRow(pid, 5, "Project Finalization")>>

VARIABLES
  db,               \* the store: project rows with their step rows, most recently updated first
  projects,         \* useDatabase: the in-memory list of UI projects
  loaded,           \* useDatabase: loadProjects has run since the app started
  currentProject,   \* App: Some(id) of the selected project, or None
  currentStepIndex, \* ProjectWorkspace: the 0-based index of the viewed step
  prevProjectRef,   \* ProjectWorkspace: Some(step statuses) of the previous project snapshot, or None
  pendingChange,    \* StepChangeWarning: Some(edit) awaiting confirmation, or None
  confirmCont,      \* handleConfirmChange suspended at its await: Some(captured closure), or None
  returned,         \* the value the store returned to the operation that just ran
  lastOp,           \* history: the operation that just ran and its arguments
  isAnalyzing,      \* InputAnalysis: the analysis call of this component is outstanding
  selectedIdea,     \* IdeaGeneration: Some(idea) the user selected, or None
  refinedIdea,      \* IdeaRefinement: the idea text it presents, None for ''
  refinedTechStack, \* IdeaRefinement: the tech stack it presents
  prdData,          \* PrdGeneration: Some(PRD record) it presents, or None
  isLoading,        \* PrdGeneration: the keys of isLoading that are true
  isGeneratingPrompt, \* ProjectFinalization: its prompt call is outstanding
  calls,            \* the external model calls that have not settled, oldest first
  error,            \* useDatabase: an operation has failed and App shows the error page
  fieldValue,       \* AutoSaveField: the value prop of each field
  fields,           \* AutoSaveProvider: fieldsRef, the registered fields
  savedValue,       \* the value each field's onSave was last invoked with
  prdInput,         \* the object normalizePrdData is called with
  normalized,       \* what the call returned or threw, NotCalled before it
  agentState,       \* analysisGraph: the channels defaultTechStack, ideas and techStack
  node,             \* analysisGraph: the node whose model call is outstanding, or where the run is
  prompts,          \* the inputs of the model calls the run has made, oldest first
  inFlight,         \* useDatabase: the updateProject calls that have not finished, oldest first
  fieldsRef,        \* AutoSaveProvider: fieldsRef.current, key -> Some(FieldData) or None
  timers,           \* the timeouts set by registerField that are pending
  timerCount,       \* the number of timeouts set so far, the id of the latest
  saving,           \* the onSave calls that have not settled, oldest first
  isSaving          \* AutoSaveProvider: the isSaving state

\* The state of the step components; the specifications that take the step
\* components as arbitrary callers of onStepUpdate and onCompleteStep leave it alone.
componentVars ==
  <<isAnalyzing, selectedIdea, refinedIdea, refinedTechStack, prdData, isLoading,
    isGeneratingPrompt, calls>>

\* What the operations of the pipeline whose writes succeed leave alone.
autoSaveVars == <<fieldValue, fields, savedValue>>

normVars == <<prdInput, normalized>>

analysisVars == <<agentState, node, prompts>>

\* updateProject followed write by write.
writeVars == <<inFlight>>

\* AutoSaveProvider with its timeouts and its saves one by one.
providerVars == <<fieldsRef, timers, timerCount, saving, isSaving>>

\* The state that only the specifications that follow it change.
unitVars == <<normVars, analysisVars, writeVars, providerVars>>

restVars == <<componentVars, error, autoSaveVars, unitVars>>

coreVars ==
  <<db, projects, loaded, currentProject, currentStepIndex, prevProjectRef,
    pendingChange, confirmCont, returned, lastOp, componentVars, error>>

\* What the auto-save fields leave alone.
appVars == <<coreVars, unitVars>>

vars == <<coreVars, autoSaveVars, unitVars>>

(* --------------------------- sequence helpers -------------------------- *)

\* Array.prototype.findIndex, 0-based, -1 when no element satisfies Test.
FindIndex(seq, Test(_)) ==
  IF \E i \in 1..Len(seq) : Test(seq[i])
    THEN (CHOOSE i \in 1..Len(seq) : Test(seq[i]) /\ \A j \in 1..(i - 1) : ~Test(seq[j])) - 1
    ELSE -1

\* Array.prototype.map
Map(seq, F(_)) == [i \in 1..Len(seq) |-> F(seq[i])]

\* The element of a list of projects with the given id: Some(project), or None.
FindProject(list, pid) ==
  LET i == FindIndex(list, LAMBDA p : p.id = pid)
  IN IF i = -1 THEN None ELSE Some(list[i + 1])

(* --------------------------- normalizePrdData -------------------------- *)

\* JavaScript values: undefined, null, strings, arrays and objects. A property
\* an object does not have reads as undefined.
JUndefined == [tag |-> "undefined"]
JNull == [tag |-> "null"]
JStr(s) == [tag |-> "string", str |-> s]
JArr(items) == [tag |-> "array", items |-> items]
JObj(props) == [tag |-> "object", fields |-> props]
EmptyObject == JObj(<<>>)

\* A TypeError thrown by the evaluation, in place of its value.
TypeError == [tag |-> "TypeError"]

\* normalizePrdData has not been called.
NotCalled == [tag |-> "notCalled"]

Threw(v) == v.tag = "TypeError"
Nullish(v) == v.tag \in {"undefined", "null"}

\* ToBoolean: undefined, null and the empty string are falsy.
Truthy(v) == v.tag \in {"array", "object"} \/ (v.tag = "string" /\ v.str # "")

\* v.key: a TypeError on undefined and null, undefined where there is no such property.
Get(v, key) ==
  IF Nullish(v) THEN TypeError
  ELSE IF v.tag = "object" /\ key \in DOMAIN v.fields THEN v.fields[key]
  ELSE JUndefined

\* v?.key
OptGet(v, key) == IF Nullish(v) THEN JUndefined ELSE Get(v, key)

\* a || b
Or(a, b) == IF Truthy(a) THEN a ELSE b

IsArray(v) == v.tag = "array"

\* Array.isArray(x) ? x : (x ? [x] : [])
ListOf(x) == IF IsArray(x) THEN x ELSE IF Truthy(x) THEN JArr(<<x>>) ELSE JArr(<<>>)

\* The array of the results, or the TypeError one of them threw.
ArrayOrThrow(results) ==
  IF \E i \in 1..Len(results) : Threw(results[i]) THEN TypeError ELSE JArr(results)

\* The object of the fields, or the TypeError one of them threw.
ObjectOrThrow(props) ==
  IF \E key \in DOMAIN props : Threw(props[key]) THEN TypeError ELSE JObj(props)

\* personas.map((p, i) => ({ name: p.name || `Persona ${i+1}`, ... })), i from 1 here.
NormalizePersona(p, i) ==
  IF Nullish(p) THEN TypeError
  ELSE JObj([name |-> Or(Get(p, "name"), JStr("Persona " \o ToString(i))),
             role |-> Or(Get(p, "role"), JStr("N/A")),
             goals |-> ListOf(Get(p, "goals")),
             frustrations |-> ListOf(Get(p, "frustrations"))])

\* features.map(f => ({ name: f.name || 'N/A', ... }))
NormalizeFeature(f) ==
  IF Nullish(f) THEN TypeError
  ELSE JObj([name |-> Or(Get(f, "name"), JStr("N/A")),
             description |-> Or(Get(f, "description"), JStr("")),
             priority |-> Or(Get(f, "priority"), JStr("N/A"))])

\* The array of a section with no look one level down.
SectionArrayNotUnwrapped(raw, name) ==
  LET section == Get(raw, name)
  IN IF IsArray(section) THEN section ELSE JArr(<<>>)

\* The array of a section: section.<name> if that is an array, else the section
\* if it is one, else [].
SectionArray(raw, name) ==
  LET section == Get(raw, name)
      nested == OptGet(section, name)
  IN IF Truthy(nested) /\ IsArray(nested) THEN nested
     ELSE IF IsArray(section) THEN section
     ELSE JArr(<<>>)

\* String.prototype.split(/\n|,|;/) and trim, on the strings of the inputs.
SplitScreens(str) == IF str = "a,b" THEN <<"a", "b">> ELSE <<str>>

\* uiDesign.screens.map(s => typeof s === 'string' ? {...} : { name: s.name || '', ... })
NormalizeScreen(s) ==
  IF s.tag = "string" THEN JObj([name |-> s, description |-> JStr("")])
  ELSE IF Nullish(s) THEN TypeError
  ELSE JObj([name |-> Or(Get(s, "name"), JStr("")),
             description |-> Or(Get(s, "description"), JStr(""))])

NormalizeScreens(screens) ==
  IF IsArray(screens)
    THEN ArrayOrThrow([i \in 1..Len(screens.items) |-> NormalizeScreen(screens.items[i])])
  ELSE IF screens.tag = "string"
    THEN LET parts == SplitScreens(screens.str)
         IN JArr([i \in 1..Len(parts) |->
                   JObj([name |-> JStr(parts[i]), description |-> JStr("")])])
  ELSE JArr(<<>>)

\* implementation.timeline.map(phase => ({ phase: phase.phase || '', ... }))
NormalizePhase(phase) ==
  IF Nullish(phase) THEN TypeError
  ELSE JObj([phase |-> Or(Get(phase, "phase"), JStr("")),
             duration |-> Or(Get(phase, "duration"), JStr("")),
             description |-> Or(Get(phase, "description"), JStr("")),
             deliverables |-> ListOf(Get(phase, "deliverables"))])

NormalizeResource(resource) ==
  IF Nullish(resource) THEN TypeError
  ELSE JObj([role |-> Or(Get(resource, "role"), JStr("")),
             commitment |-> Or(Get(resource, "commitment"), JStr("")),
             responsibilities |-> ListOf(Get(resource, "responsibilities"))])

NormalizeStakeholder(stakeholder) ==
  IF Nullish(stakeholder) THEN TypeError
  ELSE JObj([stakeholder |-> Or(Get(stakeholder, "stakeholder"), JStr("")),
             communication |-> Or(Get(stakeholder, "communication"), JStr("")),
             frequency |-> Or(Get(stakeholder, "frequency"), JStr("")),
             deliverables |-> ListOf(Get(stakeholder, "deliverables"))])

\* The implementation plan when prdData.implementation is truthy, else undefined.
NormalizeImplementation(implementation) ==
  IF ~Truthy(implementation) THEN JUndefined
  ELSE LET timeline == Get(implementation, "timeline")
           resources == Get(implementation, "resources")
           stakeholders == Get(implementation, "stakeholders")
       IN ObjectOrThrow(
            [timeline |->
               IF IsArray(timeline)
                 THEN ArrayOrThrow([i \in 1..Len(timeline.items) |->
                                      NormalizePhase(timeline.items[i])])
                 ELSE JArr(<<>>),
             resources |->
               IF IsArray(resources)
                 THEN ArrayOrThrow([i \in 1..Len(resources.items) |->
                                      NormalizeResource(resources.items[i])])
                 ELSE JArr(<<>>),
             stakeholders |->
               IF IsArray(stakeholders)
                 THEN ArrayOrThrow([i \in 1..Len(stakeholders.items) |->
                                      NormalizeStakeholder(stakeholders.items[i])])
                 ELSE JArr(<<>>)])

\* normalizePrdData of PrdGeneration: the record it returns, or the TypeError
\* it throws.
NormalizePrdData(raw) ==
  IF Nullish(raw) THEN TypeError
  ELSE
    LET summary == Or(Get(raw, "summary"), EmptyObject)
        rawPersonas == SectionArray(raw, "personas")
        rawFeatures == SectionArray(raw, "features")
        techStack == Get(raw, "techStack")
        uiDesign == Or(Get(raw, "uiDesign"), EmptyObject)
        rawPrinciples == Get(uiDesign, "principles")
        rawPalette == Get(uiDesign, "palette")
    IN ObjectOrThrow(
         [summary |->
            JObj([elevatorPitch |-> Or(Get(summary, "elevatorPitch"), JStr("")),
                  summary |-> Or(Get(summary, "summary"), JStr(""))]),
          personas |->
            ArrayOrThrow([i \in 1..Len(rawPersonas.items) |->
                            NormalizePersona(rawPersonas.items[i], i)]),
          features |->
            ArrayOrThrow([i \in 1..Len(rawFeatures.items) |->
                            NormalizeFeature(rawFeatures.items[i])]),
          techStack |->
            JObj([frontend |-> Or(OptGet(techStack, "frontend"), JStr("Not specified")),
                  backend |-> Or(OptGet(techStack, "backend"), JStr("Not specified")),
                  database |-> Or(OptGet(techStack, "database"), JStr("Not specified")),
                  hosting |-> Or(OptGet(techStack, "hosting"), JStr("Not specified"))]),
          uiDesign |->
            ObjectOrThrow(
              [principles |->
                 IF IsArray(rawPrinciples) THEN rawPrinciples
                 ELSE IF rawPrinciples.tag = "string" THEN JArr(<<rawPrinciples>>)
                 ELSE JArr(<<>>),
               palette |->
                 IF rawPalette.tag = "string" THEN JObj([colors |-> rawPalette])
                 ELSE Or(rawPalette, EmptyObject),
               screens |-> NormalizeScreens(Get(uiDesign, "screens"))]),
          implementation |-> NormalizeImplementation(Get(raw, "implementation"))])

NormalizerIdle ==
  /\ prdInput = JUndefined
  /\ normalized = NotCalled

\* No analysis is running.
AnalysisIdle ==
  /\ agentState = JUndefined
  /\ node = "idle"
  /\ prompts = <<>>

\* No updateProject is outstanding.
Quiet == inFlight = <<>>

\* AutoSaveProvider as mounted: no field, no timeout, isSaving false.
ProviderIdle ==
  /\ fieldsRef = [key \in AutoSaveKeys |-> None]
  /\ timers = {}
  /\ timerCount = 0
  /\ saving = <<>>
  /\ isSaving = FALSE

UnitsIdle == NormalizerIdle /\ AnalysisIdle /\ Quiet /\ ProviderIdle

(* ------------------------- DatabaseService ----------------------------- *)

\* DatabaseService.createProject: INSERT INTO projects; the new row is the most recent.
DbCreateProject(d, pid, name, status) ==
  <<[id |-> pid, name |-> name, status |-> status, steps |-> <<>>]>> \o d

\* DatabaseService.createProjectStep: INSERT INTO project_steps.
DbCreateProjectStep(d, row) ==
  [i \in 1..Len(d) |->
    IF d[i].id = row.project_id
      THEN [d[i] EXCEPT !.steps = Append(@, row)]
      ELSE d[i]]

\* DatabaseService.updateProject: UPDATE projects SET name = ?, status = ?, updated_at = now
\* WHERE id = ?; getAllProjects orders by updated_at DESC, so the row moves first.
DbUpdateProject(d, pid, name, status) ==
  LET i == FindIndex(d, LAMBDA p : p.id = pid)
  IN IF i = -1
       THEN d
       ELSE <<[d[i + 1] EXCEPT !.name = name, !.status = status]>>
              \o SubSeq(d, 1, i) \o SubSeq(d, i + 2, Len(d))

\* DatabaseService.updateProjectStep: UPDATE project_steps SET title = ?, status = ?,
\* content = ? WHERE id = ?; no row with that id, no change.
DbUpdateProjectStep(d, id, title, status, content) ==
  [i \in 1..Len(d) |->
    [d[i] EXCEPT !.steps =
      [j \in 1..Len(@) |->
        IF @[j].id = id
          THEN [@[j] EXCEPT !.title = title, !.status = status, !.content = content]
          ELSE @[j]]]]

\* db-create-project: the project row and its five default steps.
DbCreateWithSteps(d, pid, name, status) ==
  LET RECURSIVE AddSteps(_, _)
      AddSteps(dd, n) ==
        IF n > Len(DefaultSteps(pid)) THEN dd
        ELSE AddSteps(DbCreateProjectStep(dd, DefaultSteps(pid)[n]), n + 1)
  IN AddSteps(DbCreateProject(d, pid, name, status), 1)

\* The repair left out: a legacy project is returned as stored.
MigrateProjectSkipsRepair(project) == project

\* db-get-all-projects, the repair of one project: a project with fewer than five
\* steps and no step_5 gets step 5 appended, pending.
MigrateProject(project) ==
  IF Len(project.steps) < NumSteps
       /\ ~\E j \in 1..Len(project.steps) : IdIncludesStep(project.steps[j].id, NumSteps)
    THEN [project EXCEPT
            !.steps = Append(@, NewStepRow(project.id, 5, "Project Finalization"))]
    ELSE project

\* db-get-all-projects: every project with its steps, repaired; the store keeps
\* the created rows.
DbGetAllProjects(d) == Map(d, MigrateProject)

(* ----------------------------- useDatabase ----------------------------- *)

\* convertToUIProject: the UI step has no step_order and no project_id.
ConvertStep(row) ==
  [id |-> row.id, title |-> row.title, status |-> row.status,
   content |-> Parse(row.content)]

ConvertToUIProject(dbProject) ==
  [id |-> dbProject.id, name |-> dbProject.name, status |-> dbProject.status,
   steps |-> Map(dbProject.steps, ConvertStep)]

\* updateProject, the store side: db-update-project with name and status, then one
\* db-update-step per step with its title, status and stringified content.
StoreWrites(d, updatedProject) ==
  LET RECURSIVE WriteSteps(_, _)
      WriteSteps(dd, j) ==
        IF j > Len(updatedProject.steps) THEN dd
        ELSE LET s == updatedProject.steps[j]
             IN WriteSteps(
                  DbUpdateProjectStep(dd, s.id, s.title, s.status, Stringify(s.content)),
                  j + 1)
  IN WriteSteps(
       DbUpdateProject(d, updatedProject.id, updatedProject.name, updatedProject.status), 1)

\* setProjects that puts the project into the list when the list does not have it.
ReplaceOrAddProject(list, updatedProject) ==
  IF FindProject(list, updatedProject.id) = None
    THEN <<updatedProject>> \o list
    ELSE Map(list, LAMBDA p : IF p.id = updatedProject.id THEN updatedProject ELSE p)

\* updateProject, the renderer side: setProjects(prev => prev.map(p => p.id === id ? updated : p))
ReplaceProject(list, updatedProject) ==
  Map(list, LAMBDA p : IF p.id = updatedProject.id THEN updatedProject ELSE p)

\* updateStepContent: the project of the closure's list with the content of the
\* named step replaced; every other field is the closure's.
UpdateStepContentProject(project, stepId, content) ==
  [project EXCEPT !.steps =
    Map(@, LAMBDA step : IF step.id = stepId THEN [step EXCEPT !.content = content] ELSE step)]

\* completeStep: the named step completed with the data, the step after the index
\* findIndex returns set to pending whatever its status (index -1, no such step,
\* makes it the first step), the project status recomputed. The step set to
\* pending is the list's own object; the write that follows stores the same value.
CompleteStepProject(project, stepId, data) ==
  LET updatedSteps ==
        Map(project.steps, LAMBDA step :
          IF step.id = stepId
            THEN [step EXCEPT !.status = "completed", !.content = data]
            ELSE step)
      stepIndex == FindIndex(project.steps, LAMBDA s : s.id = stepId)
      withNext ==
        IF stepIndex < Len(project.steps) - 1
          THEN [updatedSteps EXCEPT ![stepIndex + 2].status = "pending"]
          ELSE updatedSteps
  IN [project EXCEPT
        !.steps = withNext,
        !.status = IF \A j \in 1..Len(withNext) : withNext[j].status = "completed"
                     THEN "completed" ELSE "in-progress"]

(* --------------------------------- App --------------------------------- *)

\* The first step that is pending or in-progress, else the last step (0-based):
\* StepNavigation.actualCurrentStepIndex and the ProjectWorkspace effect.
ActualCurrentStepIndex(project) ==
  LET i == FindIndex(project.steps,
                     LAMBDA step : step.status = "pending" \/ step.status = "in-progress")
  IN IF i # -1
       THEN FindIndex(project.steps, LAMBDA s : s.id = project.steps[i + 1].id)
       ELSE Len(project.steps) - 1

Statuses(project) == Map(project.steps, LAMBDA step : step.status)

\* App, the effect on [projects]: keep the selection while its project exists,
\* else select the first project, or nothing.
AppEffect(list, selected) ==
  IF Len(list) = 0 THEN None
  ELSE IF selected = None THEN Some(list[1].id)
  ELSE IF FindProject(list, selected[1]) # None THEN selected
  ELSE Some(list[1].id)

\* The effect navigating on the first project only, never on a status change.
WorkspaceEffectFirstLoadOnly(project, prev, index) ==
  IF project = None THEN [index |-> index, prev |-> prev]
  ELSE IF prev = None
    THEN [index |-> ActualCurrentStepIndex(project[1]), prev |-> Some(Statuses(project[1]))]
    ELSE [index |-> index, prev |-> Some(Statuses(project[1]))]

\* ProjectWorkspace, the effect on [project]: on the first project, or when a step
\* status differs from the previous snapshot, view the active step.
WorkspaceEffect(project, prev, index) ==
  IF project = None THEN [index |-> index, prev |-> prev]
  ELSE LET st == Statuses(project[1])
           statusChanged ==
             \E j \in 1..Len(st) : j <= Len(prev[1]) /\ st[j] # prev[1][j]
       IN IF prev = None \/ statusChanged
            THEN [index |-> ActualCurrentStepIndex(project[1]), prev |-> Some(st)]
            ELSE [index |-> index, prev |-> Some(st)]

\* The render that follows a change of the project list or of the selection.
Render(list, selected) ==
  LET cur == AppEffect(list, selected)
      project == IF cur = None THEN None ELSE FindProject(list, cur[1])
      w == WorkspaceEffect(project, prevProjectRef, currentStepIndex)
  IN /\ projects' = list
     /\ currentProject' = cur
     /\ currentStepIndex' = w.index
     /\ prevProjectRef' = w.prev

\* ProjectWorkspace: the project prop.
Project == IF currentProject = None THEN None ELSE FindProject(projects, currentProject[1])

\* No dialog open and no handler suspended.
Idle == pendingChange = None /\ confirmCont = None

NoOp == [op |-> "none", pid |-> 0, step |-> ForeignStepId, data |-> Undefined]
Op(name, pid, step, data) == [op |-> name, pid |-> pid, step |-> step, data |-> data]

(* ------------------------------- Init ---------------------------------- *)

\* A project written by the four-step version of the application: steps 1 to 4,
\* the first k of them completed, the project status as its completeStep left it.
LegacyProject(pid, k) ==
  [id |-> pid,
   name |-> NewProjectName,
   status |-> IF k = 0 THEN "draft" ELSE IF k = LegacySteps THEN "completed" ELSE "in-progress",
   steps |-> [n \in 1..LegacySteps |->
               IF n <= k
                 THEN [DefaultSteps(pid)[n] EXCEPT !.status = "completed",
                                                   !.content = Stringify(Obj(1))]
                 ELSE DefaultSteps(pid)[n]]]

\* The renderer when the application starts: nothing loaded, nothing selected.
InitRenderer ==
  /\ projects = <<>>
  /\ loaded = FALSE
  /\ currentProject = None
  /\ currentStepIndex = 0
  /\ prevProjectRef = None
  /\ pendingChange = None
  /\ confirmCont = None
  /\ returned = <<>>
  /\ lastOp = NoOp
  /\ isAnalyzing = FALSE
  /\ selectedIdea = None
  /\ refinedIdea = None
  /\ refinedTechStack = None
  /\ prdData = None
  /\ isLoading = {}
  /\ isGeneratingPrompt = FALSE
  /\ calls = <<>>
  /\ error = FALSE
  /\ fieldValue = [key \in AutoSaveKeys |-> InitialFieldValue]
  /\ fields = [key \in AutoSaveKeys |-> None]
  /\ savedValue = [key \in AutoSaveKeys |-> None]

\* The application starts on an empty store or on one that holds a legacy project.
Init ==
  /\ db \in {<<>>} \cup {<<LegacyProject(1, k)>> : k \in 0..LegacySteps}
  /\ InitRenderer
  /\ UnitsIdle

\* The application starts on an empty store.
InitFresh ==
  /\ db = <<>>
  /\ InitRenderer
  /\ UnitsIdle

(* ------------------------------ actions -------------------------------- *)

\* useDatabase.loadProjects, run by the mount effect.
LoadProjectsRenderer ==
  /\ ~loaded
  /\ LET result == DbGetAllProjects(db)
     IN /\ db' = result
        /\ returned' = result
        /\ Render(Map(result, ConvertToUIProject), currentProject)
  /\ loaded' = TRUE
  /\ lastOp' = Op("loadProjects", 0, ForeignStepId, Undefined)
  /\ UNCHANGED <<pendingChange, confirmCont>>

LoadProjects ==
  /\ LoadProjectsRenderer
  /\ UNCHANGED restVars

\* The application is closed and started again: the renderer state is rebuilt,
\* the store is kept.
RestartRenderer ==
  /\ loaded
  /\ Idle
  /\ projects' = <<>>
  /\ loaded' = FALSE
  /\ currentProject' = None
  /\ currentStepIndex' = 0
  /\ prevProjectRef' = None
  /\ returned' = <<>>
  /\ lastOp' = Op("restart", 0, ForeignStepId, Undefined)
  /\ UNCHANGED <<db, pendingChange, confirmCont>>

Restart ==
  /\ RestartRenderer
  /\ UNCHANGED restVars

\* App.handleNewProject: useDatabase.createProject, then the new project is selected.
CreateProjectRenderer(pid) ==
  /\ loaded
  /\ Idle
  /\ FindProject(db, pid) = None
  /\ LET created == DbCreateWithSteps(db, pid, NewProjectName, "draft")
         dbProject == created[1]
         uiProject == ConvertToUIProject(dbProject)
     IN /\ db' = created
        /\ returned' = <<dbProject>>
        /\ Render(<<uiProject>> \o projects, Some(uiProject.id))
  /\ lastOp' = Op("createProject", pid, ForeignStepId, Undefined)
  /\ UNCHANGED <<loaded, pendingChange, confirmCont>>

CreateProject(pid) ==
  /\ CreateProjectRenderer(pid)
  /\ UNCHANGED restVars

\* App.handleSelectProject
SelectProject(pid) ==
  /\ loaded
  /\ Idle
  /\ FindProject(projects, pid) # None
  /\ Render(projects, Some(pid))
  /\ returned' = <<>>
  /\ lastOp' = Op("selectProject", pid, ForeignStepId, Undefined)
  /\ UNCHANGED <<db, loaded, pendingChange, confirmCont>>
  /\ UNCHANGED restVars

\* StepNavigation: a click on the button of an accessible step views that step.
HandleStepClick(index) ==
  /\ Idle
  /\ Project # None
  /\ LET project == Project[1]
     IN /\ index \in 0..(Len(project.steps) - 1)
        /\ \/ index <= ActualCurrentStepIndex(project)
           \/ project.steps[index + 1].status = "completed"
  /\ currentStepIndex' = index
  /\ returned' = <<>>
  /\ lastOp' = Op("handleStepClick", currentProject[1], ForeignStepId, Undefined)
  /\ UNCHANGED <<db, projects, loaded, currentProject, prevProjectRef,
                 pendingChange, confirmCont>>
  /\ UNCHANGED restVars

\* useDatabase.updateProject called with updatedProject while the list is `list`:
\* the store writes, then the list with the project replaced, then the render.
UpdateProject(updatedProject) ==
  /\ db' = StoreWrites(db, updatedProject)
  /\ Render(ReplaceProject(projects, updatedProject), currentProject)

\* useDatabase.completeStep, called with the current list in its closure.
CompleteStep(pid, stepId, data) ==
  LET found == FindProject(projects, pid)
  IN IF found = None
       THEN UNCHANGED <<db, projects, currentProject, currentStepIndex, prevProjectRef>>
       ELSE UpdateProject(CompleteStepProject(found[1], stepId, data))

\* useDatabase.updateStepContent, called with `list` in its closure.
UpdateStepContent(list, pid, stepId, content) ==
  LET found == FindProject(list, pid)
  IN IF found = None
       THEN UNCHANGED <<db, projects, currentProject, currentStepIndex, prevProjectRef>>
       ELSE UpdateProject(UpdateStepContentProject(found[1], stepId, content))

\* The step component of the viewed step completes its step:
\* onCompleteStep(project.id, currentStep.id, data).
ViewedStepComplete(data) ==
  /\ Idle
  /\ Project # None
  /\ LET project == Project[1]
         stepId == project.steps[currentStepIndex + 1].id
     IN /\ CompleteStep(project.id, stepId, data)
        /\ lastOp' = Op("completeStep", project.id, stepId, data)
  /\ returned' = <<>>
  /\ UNCHANGED <<loaded, pendingChange, confirmCont>>
  /\ UNCHANGED restVars

\* StepChangeWarning.isOnPreviousStep: the viewed step is completed.
IsOnPreviousStep(project, index) ==
  project.steps[index + 1].status = "completed"

\* ProjectWorkspace: the components of steps 1 to 3 are wrapped in StepChangeWarning,
\* those of steps 4 and 5 receive App.handleStepUpdate itself.
WrappedInWarning(stepId) ==
  \E n \in 1..3 : IdIncludesStep(stepId, n)

\* The step component of the viewed step saves content through onStepUpdate; no
\* confirmation is due: StepChangeWarning.handleStepUpdate passes it on, or the
\* component is not wrapped.
ViewedStepUpdate(content) ==
  /\ Idle
  /\ Project # None
  /\ LET project == Project[1]
         stepId == project.steps[currentStepIndex + 1].id
     IN /\ ~(WrappedInWarning(stepId) /\ IsOnPreviousStep(project, currentStepIndex))
        /\ UpdateStepContent(projects, project.id, stepId, content)
        /\ lastOp' = Op("updateStepContent", project.id, stepId, content)
  /\ returned' = <<>>
  /\ UNCHANGED <<loaded, pendingChange, confirmCont>>
  /\ UNCHANGED restVars

\* handleStepUpdate without its early return: the dialog opens and the edit is
\* written all the same.
HandleStepUpdateWarnFallsThrough(content) ==
  /\ Idle
  /\ Project # None
  /\ LET project == Project[1]
         stepId == project.steps[currentStepIndex + 1].id
     IN /\ WrappedInWarning(stepId)
        /\ IsOnPreviousStep(project, currentStepIndex)
        /\ pendingChange' = Some([stepId |-> stepId, content |-> content])
        /\ UpdateStepContent(projects, project.id, stepId, content)
        /\ lastOp' = Op("handleStepUpdate", project.id, stepId, content)
  /\ returned' = <<>>
  /\ UNCHANGED <<loaded, confirmCont>>
  /\ UNCHANGED restVars

\* StepChangeWarning.handleStepUpdate on a completed step: the edit is held back
\* and the dialog opens.
HandleStepUpdateWarn(content) ==
  /\ Idle
  /\ Project # None
  /\ LET project == Project[1]
         stepId == project.steps[currentStepIndex + 1].id
     IN /\ WrappedInWarning(stepId)
        /\ IsOnPreviousStep(project, currentStepIndex)
        /\ pendingChange' = Some([stepId |-> stepId, content |-> content])
        /\ lastOp' = Op("handleStepUpdate", project.id, stepId, content)
  /\ returned' = <<>>
  /\ UNCHANGED <<db, projects, loaded, currentProject, currentStepIndex,
                 prevProjectRef, confirmCont>>
  /\ UNCHANGED restVars

\* handleConfirmChange, the reset: steps before the viewed one completed, the
\* viewed one in-progress, the later ones pending, the project in-progress.
ResetProject(project, index) ==
  [project EXCEPT
    !.steps = [j \in 1..Len(@) |->
                IF j - 1 < index THEN [@[j] EXCEPT !.status = "completed"]
                ELSE IF j - 1 = index THEN [@[j] EXCEPT !.status = "in-progress"]
                ELSE [@[j] EXCEPT !.status = "pending"]],
    !.status = "in-progress"]

\* StepChangeWarning.handleConfirmChange up to the return of its await: the reset
\* project is written and rendered; the handler keeps the onStepUpdate of the
\* render it was created in, whose updateStepContent closes over the list of that
\* render. Nothing else runs until the handler resumes.
HandleConfirmChange ==
  /\ pendingChange # None
  /\ confirmCont = None
  /\ Project # None
  /\ LET project == Project[1]
     IN /\ confirmCont' = Some([projects |-> projects, pid |-> project.id,
                                stepId |-> pendingChange[1].stepId,
                                content |-> pendingChange[1].content])
        /\ UpdateProject(ResetProject(project, currentStepIndex))
        /\ lastOp' = Op("handleConfirmChange", project.id,
                        pendingChange[1].stepId, pendingChange[1].content)
  /\ returned' = <<>>
  /\ UNCHANGED <<loaded, pendingChange>>
  /\ UNCHANGED restVars

\* StepChangeWarning.handleConfirmChange after its await: the original update
\* through the captured onStepUpdate, then the pending change is cleared.
HandleConfirmChangeResume ==
  /\ confirmCont # None
  /\ LET c == confirmCont[1]
     IN /\ UpdateStepContent(c.projects, c.pid, c.stepId, c.content)
        /\ lastOp' = Op("handleConfirmChangeDone", c.pid, c.stepId, c.content)
  /\ pendingChange' = None
  /\ confirmCont' = None
  /\ returned' = <<>>
  /\ UNCHANGED loaded
  /\ UNCHANGED restVars

\* StepChangeWarning.handleCancelChange
HandleCancelChange ==
  /\ pendingChange # None
  /\ confirmCont = None
  /\ pendingChange' = None
  /\ returned' = <<>>
  /\ lastOp' = Op("handleCancelChange", currentProject[1],
                  pendingChange[1].stepId, Undefined)
  /\ UNCHANGED <<db, projects, loaded, currentProject, currentStepIndex,
                 prevProjectRef, confirmCont>>
  /\ UNCHANGED restVars

Next ==
  \/ LoadProjects
  \/ Restart
  \/ \E pid \in ProjectIds : CreateProject(pid)
  \/ \E pid \in ProjectIds : SelectProject(pid)
  \/ \E index \in 0..(NumSteps - 1) : HandleStepClick(index)
  \/ \E c \in Contents : ViewedStepComplete(Obj(c))
  \/ \E c \in Contents : ViewedStepUpdate(Obj(c))
  \/ \E c \in Contents : HandleStepUpdateWarn(Obj(c))
  \/ HandleConfirmChange
  \/ HandleConfirmChangeResume
  \/ HandleCancelChange

Spec == Init /\ [][Next]_vars

\* Every operation, on a store that never held a legacy project.
SpecFresh == InitFresh /\ [][Next]_vars

(* ----------------- operations without a confirmed rewind --------------- *)

\* Every operation but the confirmation of the rewind dialog.
NextNoRewind ==
  \/ LoadProjects
  \/ Restart
  \/ \E pid \in ProjectIds : CreateProject(pid)
  \/ \E pid \in ProjectIds : SelectProject(pid)
  \/ \E index \in 0..(NumSteps - 1) : HandleStepClick(index)
  \/ \E c \in Contents : ViewedStepComplete(Obj(c))
  \/ \E c \in Contents : ViewedStepUpdate(Obj(c))
  \/ \E c \in Contents : HandleStepUpdateWarn(Obj(c))
  \/ HandleCancelChange

SpecNoRewind == InitFresh /\ [][NextNoRewind]_vars

(* ------------- completeStep called with any step id ------------------- *)

\* The step ids a caller of the hook may pass for a project: its five, or a foreign one.
AnyStepIds(pid) == {StepId(pid, n) : n \in 1..NumSteps} \cup {ForeignStepId}

\* completeStep(projectId, stepId, data) called by any caller.
ApiCompleteStep(pid, stepId, data) ==
  /\ loaded
  /\ CompleteStep(pid, stepId, data)
  /\ lastOp' = Op("completeStep", pid, stepId, data)
  /\ returned' = <<>>
  /\ UNCHANGED <<loaded, pendingChange, confirmCont>>
  /\ UNCHANGED restVars

NextApi ==
  \/ LoadProjects
  \/ \E pid \in ProjectIds : CreateProject(pid)
  \/ \E pid \in ProjectIds, c \in Contents :
       \E stepId \in AnyStepIds(pid) : ApiCompleteStep(pid, stepId, Obj(c))

SpecApi == InitFresh /\ [][NextApi]_vars

(* --------------------------- failing store writes ---------------------- *)

\* updateProject when its write number failAt throws (0 is db-update-project, j is
\* the db-update-step of step j): the writes before it are made, the others and
\* setProjects are not.
StoreWritesUpTo(d, updatedProject, failAt) ==
  LET RECURSIVE WriteSteps(_, _)
      WriteSteps(dd, j) ==
        IF j >= failAt \/ j > Len(updatedProject.steps) THEN dd
        ELSE LET st == updatedProject.steps[j]
             IN WriteSteps(
                  DbUpdateProjectStep(dd, st.id, st.title, st.status, Stringify(st.content)),
                  j + 1)
  IN IF failAt = 0 THEN d
     ELSE WriteSteps(
            DbUpdateProject(d, updatedProject.id, updatedProject.name, updatedProject.status),
            1)

\* completeStep, what it does to the list it closes over before it calls
\* updateProject: updatedSteps[currentStepIndex + 1] is the step object of the
\* list itself (map returned it as it was), and its status is assigned.
MutatedByCompleteStep(list, pid, stepId) ==
  Map(list, LAMBDA p :
    IF p.id # pid THEN p
    ELSE LET stepIndex == FindIndex(p.steps, LAMBDA st : st.id = stepId)
         IN IF stepIndex < Len(p.steps) - 1
              THEN [p EXCEPT !.steps[stepIndex + 2].status = "pending"]
              ELSE p)

\* What a failed operation leaves: setError, App renders the error page in place
\* of the workspace.
Failed ==
  /\ error' = TRUE
  /\ pendingChange' = None
  /\ confirmCont' = None
  /\ returned' = <<>>
  /\ UNCHANGED <<loaded, currentProject, currentStepIndex, prevProjectRef, componentVars,
                 autoSaveVars, unitVars>>

\* completeStep of the viewed step, a write of its updateProject failing.
ViewedStepCompleteFails(data, failAt) ==
  /\ ~error
  /\ Idle
  /\ Project # None
  /\ LET project == Project[1]
         stepId == project.steps[currentStepIndex + 1].id
     IN /\ db' = StoreWritesUpTo(db, CompleteStepProject(project, stepId, data), failAt)
        /\ projects' = MutatedByCompleteStep(projects, project.id, stepId)
        /\ lastOp' = Op("completeStepFailed", project.id, stepId, data)
  /\ Failed

\* updateStepContent of the viewed step, a write of its updateProject failing.
ViewedStepUpdateFails(content, failAt) ==
  /\ ~error
  /\ Idle
  /\ Project # None
  /\ LET project == Project[1]
         stepId == project.steps[currentStepIndex + 1].id
     IN /\ ~(WrappedInWarning(stepId) /\ IsOnPreviousStep(project, currentStepIndex))
        /\ db' = StoreWritesUpTo(db, UpdateStepContentProject(project, stepId, content), failAt)
        /\ lastOp' = Op("updateStepContentFailed", project.id, stepId, content)
  /\ UNCHANGED projects
  /\ Failed

\* handleConfirmChange, a write of the updateProject of its reset failing: the
\* handler logs the error and does not go on to the original update.
HandleConfirmChangeFails(failAt) ==
  /\ ~error
  /\ pendingChange # None
  /\ confirmCont = None
  /\ Project # None
  /\ LET project == Project[1]
     IN /\ db' = StoreWritesUpTo(db, ResetProject(project, currentStepIndex), failAt)
        /\ lastOp' = Op("handleConfirmChangeFailed", project.id,
                        pendingChange[1].stepId, pendingChange[1].content)
  /\ UNCHANGED projects
  /\ Failed

\* The application is closed and started again after a failure.
RestartAfterError ==
  /\ error
  /\ RestartRenderer
  /\ error' = FALSE
  /\ UNCHANGED <<componentVars, autoSaveVars, unitVars>>

\* Every operation of the pipeline, each write of updateProject succeeding or
\* throwing; after a failure the error page is all there is until a restart.
NextFail ==
  \/ LoadProjects
  \/ RestartAfterError
  \/ \E pid \in ProjectIds : ~error /\ CreateProject(pid)
  \/ \E index \in 0..(NumSteps - 1) : ~error /\ HandleStepClick(index)
  \/ \E c \in Contents : ~error /\ ViewedStepComplete(Obj(c))
  \/ \E c \in Contents : ~error /\ ViewedStepUpdate(Obj(c))
  \/ \E c \in Contents : ~error /\ HandleStepUpdateWarn(Obj(c))
  \/ ~error /\ HandleConfirmChange
  \/ HandleConfirmChangeResume
  \/ ~error /\ HandleCancelChange
  \/ \E c \in Contents, failAt \in 0..NumSteps : ViewedStepCompleteFails(Obj(c), failAt)
  \/ \E c \in Contents, failAt \in 0..NumSteps : ViewedStepUpdateFails(Obj(c), failAt)
  \/ \E failAt \in 0..NumSteps : HandleConfirmChangeFails(failAt)

SpecFail == InitFresh /\ [][NextFail]_vars

(* ----------------------------- deleteProject --------------------------- *)

\* The ids of the projects of the specification with several projects.
TwoProjectIds == {1, 2}

\* DELETE FROM projects with no WHERE clause: every project goes.
DbDeleteProjectNoWhere(d, id) ==
  [db |-> <<>>, success |-> Len(d) > 0]

\* DatabaseService.deleteProject: DELETE FROM projects WHERE id = ?, and with
\* foreign_keys = ON the step rows of the project go with it (ON DELETE
\* CASCADE; the steps are held with their project here); true when a row went.
DbDeleteProject(d, id) ==
  [db |-> SelectSeq(d, LAMBDA p : p.id # id),
   success |-> \E i \in 1..Len(d) : d[i].id = id]

\* App.handleDeleteProject from the confirmation of the sidebar: deleteProject
\* filters the list, then the selection is cleared if it was the deleted
\* project. When the two state updates are rendered together the effect on
\* [projects] sees no selection and selects the first project left; when the
\* list is rendered first the effect selects and the handler then clears.
HandleDeleteProjectRenderer(pid, together) ==
  /\ loaded
  /\ Idle
  /\ FindProject(projects, pid) # None
  /\ LET result == DbDeleteProject(db, pid)
         list == SelectSeq(projects, LAMBDA p : p.id # pid)
         wasCurrent == currentProject = Some(pid)
     IN /\ db' = result.db
        /\ returned' = <<result.success>>
        /\ IF wasCurrent /\ ~together
             THEN /\ projects' = list
                  /\ currentProject' = None
                  /\ LET first == AppEffect(list, currentProject)
                         project == IF first = None THEN None ELSE FindProject(list, first[1])
                         w == WorkspaceEffect(project, prevProjectRef, currentStepIndex)
                     IN /\ currentStepIndex' = w.index
                        /\ prevProjectRef' = w.prev
             ELSE Render(list, IF wasCurrent THEN None ELSE currentProject)
  /\ lastOp' = Op("handleDeleteProject", pid, ForeignStepId, Undefined)
  /\ UNCHANGED <<loaded, pendingChange, confirmCont>>

HandleDeleteProject(pid, together) ==
  /\ HandleDeleteProjectRenderer(pid, together)
  /\ UNCHANGED restVars

\* db-delete-project called with any id, one that exists or not: the handler
\* returns what DatabaseService.deleteProject returns.
ApiDeleteProject(pid) ==
  /\ loaded
  /\ Idle
  /\ LET result == DbDeleteProject(db, pid)
     IN /\ db' = result.db
        /\ returned' = <<result.success>>
  /\ lastOp' = Op("dbDeleteProject", pid, ForeignStepId, Undefined)
  /\ UNCHANGED <<projects, loaded, currentProject, currentStepIndex, prevProjectRef,
                 pendingChange, confirmCont>>
  /\ UNCHANGED restVars

\* Two projects created, selected, taken forward through the pipeline and deleted;
\* the id of a project that is still listed is not given to a new one.
NextDelete ==
  \/ LoadProjects
  \/ Restart
  \/ \E pid \in TwoProjectIds : FindProject(projects, pid) = None /\ CreateProject(pid)
  \/ \E pid \in TwoProjectIds : SelectProject(pid)
  \/ ViewedStepComplete(Obj(1))
  \/ \E pid \in TwoProjectIds, together \in BOOLEAN : HandleDeleteProject(pid, together)
  \/ \E pid \in TwoProjectIds : ApiDeleteProject(pid)

SpecDelete == InitFresh /\ [][NextDelete]_vars

(* ------------------------------ auto-save ------------------------------ *)

\* AutoSaveProvider.registerField on the entry of the key: the pending timeout
\* is cleared; for the value the field already has the entry is written back and
\* no timeout is set; else a timeout is set that will call onSave(value).
RegisterField(existingField, value) ==
  IF existingField # None /\ existingField[1].value = value
    THEN Some([existingField[1] EXCEPT !.timeout = FALSE])
    ELSE Some([value |-> value, timeout |-> TRUE])

\* A render of the component: onSave is a new function for every field, so the
\* effect of useAutoSaveField runs for each of them and registers the field
\* unless its value is the initial one.
RenderFields(f, values) ==
  [key \in AutoSaveKeys |->
     IF values[key] # InitialFieldValue THEN RegisterField(f[key], values[key]) ELSE f[key]]

\* The user edits a field: setState and a render.
HandleFieldChange(key, value) ==
  /\ fieldValue[key] # value
  /\ fieldValue' = [fieldValue EXCEPT ![key] = value]
  /\ fields' = RenderFields(fields, fieldValue')
  /\ UNCHANGED savedValue
  /\ UNCHANGED appVars

\* The component renders again with the values it has (App rendered, or another
\* state of the component changed).
Rerender ==
  /\ fields' = RenderFields(fields, fieldValue)
  /\ UNCHANGED <<fieldValue, savedValue>>
  /\ UNCHANGED appVars

\* The debounce timeout of a field fires: onSave(value) with the value of the
\* registration, finally the timeout reference is cleared; the save changes the
\* project list, so the component renders again.
TimerFires(key) ==
  /\ fields[key] # None
  /\ fields[key][1].timeout
  /\ savedValue' = [savedValue EXCEPT ![key] = Some(fields[key][1].value)]
  /\ fields' = RenderFields(
                  [fields EXCEPT ![key] = Some([@[1] EXCEPT !.timeout = FALSE])], fieldValue)
  /\ UNCHANGED fieldValue
  /\ UNCHANGED appVars

NextAutoSave ==
  \/ \E key \in AutoSaveKeys, value \in FieldValues : HandleFieldChange(key, value)
  \/ Rerender
  \/ \E key \in AutoSaveKeys : TimerFires(key)

\* The fields stay mounted; a timeout that is pending fires.
SpecAutoSave ==
  /\ InitFresh
  /\ [][NextAutoSave]_vars
  /\ \A key \in AutoSaveKeys : WF_vars(TimerFires(key))

(* ----------------------- normalizePrdData, its calls -------------------- *)

\* The strings of the inputs: the empty string and a non-empty one.
Strings == {"", "a"}

PrdSectionKeys == {"summary", "personas", "features", "techStack", "uiDesign", "implementation"}

\* Records of the canonical shape (types/ai.ts PRDResult), string fields empty
\* or not, with and without an implementation plan.
CanonicalPersonas ==
  {<<>>} \cup
  {<<JObj([name |-> JStr(n), role |-> JStr(r), goals |-> JArr(g),
           frustrations |-> JArr(<<>>)])>> :
     n \in Strings, r \in Strings, g \in {<<>>, <<JStr("a")>>}}

CanonicalFeatures ==
  {<<>>} \cup
  {<<JObj([name |-> JStr(n), description |-> JStr(d), priority |-> JStr("High")])>> :
     n \in Strings, d \in Strings}

CanonicalScreens ==
  {<<>>, <<JObj([name |-> JStr("a"), description |-> JStr("")])>>}

CanonicalImplementations ==
  {JUndefined,
   JObj([timeline |-> JArr(<<JObj([phase |-> JStr("a"), duration |-> JStr(""),
                                   description |-> JStr("a"),
                                   deliverables |-> JArr(<<JStr("a")>>)])>>),
         resources |-> JArr(<<>>),
         stakeholders |-> JArr(<<>>)])}

CanonicalRecords ==
  {JObj([summary |-> JObj([elevatorPitch |-> JStr(e), summary |-> JStr(t)]),
         personas |-> JArr(p),
         features |-> JArr(f),
         techStack |-> JObj([frontend |-> JStr(front), backend |-> JStr("a"),
                             database |-> JStr("a"), hosting |-> JStr("a")]),
         uiDesign |-> JObj([principles |-> JArr(<<JStr("a")>>),
                            palette |-> JObj([primary |-> JStr("a")]),
                            screens |-> JArr(sc)]),
         implementation |-> impl]) :
     e \in Strings, t \in Strings, p \in CanonicalPersonas, f \in CanonicalFeatures,
     front \in Strings, sc \in CanonicalScreens, impl \in CanonicalImplementations}

\* Values of a wrong or missing shape.
WrongValues ==
  {JUndefined, JNull, JStr(""), JStr("a"), JStr("a,b"), JArr(<<>>), JArr(<<JNull>>),
   JArr(<<JStr("a")>>), JArr(<<EmptyObject>>), EmptyObject}

\* The object with the one property.
Only(key, value) == JObj([k \in {key} |-> value])

\* Objects with one section, or one field of one section, of a wrong shape and
\* everything else missing; {} is Only(section, undefined).
MisshapenInputs ==
  {Only(section, w) : section \in PrdSectionKeys, w \in WrongValues}
  \cup {Only(section, Only(section, w)) : section \in {"personas", "features"}, w \in WrongValues}
  \cup {Only("personas", JArr(<<Only(field, w)>>)) :
          field \in {"name", "role", "goals", "frustrations"}, w \in WrongValues}
  \cup {Only("uiDesign", Only(field, w)) :
          field \in {"principles", "palette", "screens"}, w \in WrongValues}
  \cup {Only("implementation", Only(part, w)) :
          part \in {"timeline", "resources", "stakeholders"}, w \in WrongValues}

\* Elements of a personas array as the model returns them: fields missing,
\* null, strings or arrays.
PersonaElements ==
  {EmptyObject, Only("name", JStr("Sam")), Only("frustrations", JStr("a")),
   Only("frustrations", JStr(""))}
  \cup {JObj([name |-> n, role |-> r, goals |-> g]) :
          n \in {JUndefined, JStr("a")}, r \in {JNull, JStr("a")},
          g \in {JUndefined, JNull, JStr(""), JStr("a"), JArr(<<>>), JArr(<<JStr("a")>>)}}

FeatureElements ==
  {EmptyObject}
  \cup {JObj([name |-> n, description |-> d, priority |-> pr]) :
          n \in {JUndefined, JStr("a")}, d \in {JNull, JStr("a")},
          pr \in {JUndefined, JStr("High")}}

\* The array of a section nested one level down under the key of the section.
NestedInputs ==
  {Only("personas", Only("personas", JArr(<<e>>))) : e \in PersonaElements}
  \cup {Only("personas", Only("personas", JArr(<<e1, e2>>))) :
          e1 \in {EmptyObject, Only("name", JStr("Sam"))}, e2 \in {EmptyObject}}
  \cup {Only("features", Only("features", JArr(<<e>>))) : e \in FeatureElements}

PrdInputs == CanonicalRecords \cup MisshapenInputs \cup NestedInputs \cup {EmptyObject}

InitNormalize ==
  /\ db = <<>>
  /\ InitRenderer
  /\ prdInput \in PrdInputs
  /\ normalized = NotCalled
  /\ AnalysisIdle
  /\ Quiet
  /\ ProviderIdle

\* normalizePrdData(prdInput) is evaluated.
NormalizePrdDataCalled ==
  /\ normalized = NotCalled
  /\ normalized' = NormalizePrdData(prdInput)
  /\ UNCHANGED prdInput
  /\ UNCHANGED <<coreVars, autoSaveVars, analysisVars, writeVars, providerVars>>

NextNormalize == NormalizePrdDataCalled

SpecNormalize == InitNormalize /\ [][NextNormalize]_vars

(* -------------------------- the analysis graph ------------------------- *)

TechStackFields == {"frontend", "backend", "database", "hosting"}

\* What the user's default tech stack holds for a field.
Preferences == {"", "Vue"}

\* What the model's answer holds for a field: nothing, or a suggestion.
Suggestions == {JUndefined, JStr("React")}

\* The defaultTechStack argument: absent, or the five strings of the settings.
DefaultTechStacks ==
  {JUndefined} \cup
  {JObj([f \in TechStackFields |-> JStr(pref[f])] @@ [additional |-> JStr("")]) :
     pref \in [TechStackFields -> Preferences]}

\* The parsed answers of the idea chain.
IdeaAnswers == {EmptyObject, JObj([ideas |-> JArr(<<JStr("a")>>)])}

\* The parsed answers of the stack chain.
StackAnswers == {JObj(answer) : answer \in [TechStackFields -> Suggestions]}

\* analyzeProjectWithManager(context, defaultTechStack): the graph is invoked on the
\* initial state; the channels ideas and techStack start from their defaults.
AnalyzeProjectWithManager(defaultTechStack) ==
  /\ node = "idle"
  /\ agentState' = [defaultTechStack |-> defaultTechStack,
                    ideas |-> JArr(<<>>),
                    techStack |-> JUndefined]
  /\ node' = "__start__"
  /\ UNCHANGED prompts
  /\ UNCHANGED <<coreVars, autoSaveVars, normVars, writeVars, providerVars>>

\* The edge __start__ -> ideaGenerator: ideaGenerator invokes its chain.
IdeaGeneratorInvokes ==
  /\ node = "__start__"
  /\ node' = "ideaGenerator"
  /\ prompts' = Append(prompts, [chain |-> "idea"])
  /\ UNCHANGED agentState
  /\ UNCHANGED <<coreVars, autoSaveVars, normVars, writeVars, providerVars>>

\* What techRecommender builds from the answer of its chain.
TechStackOf(aiResult) ==
  JObj([f \in TechStackFields |-> Or(Get(aiResult, f), JStr("Not specified"))])

\* The idea chain answers: ideaGenerator returns { ideas: result.ideas || [] }, and the
\* edge ideaGenerator -> techRecommender makes techRecommender invoke its chain.
IdeaGeneratorReturns(result) ==
  /\ node = "ideaGenerator"
  /\ agentState' = [agentState EXCEPT !.ideas = Or(Get(result, "ideas"), JArr(<<>>))]
  /\ node' = "techRecommender"
  /\ prompts' = Append(prompts, [chain |-> "stack",
                                 ideas |-> agentState'.ideas,
                                 defaultTechStack |-> agentState.defaultTechStack])
  /\ UNCHANGED <<coreVars, autoSaveVars, normVars, writeVars, providerVars>>

\* The stack chain answers: techRecommender returns { techStack }, and the edge
\* techRecommender -> END ends the run, whose final state analyzeProjectWithManager returns.
TechRecommenderReturns(aiResult) ==
  /\ node = "techRecommender"
  /\ agentState' = [agentState EXCEPT !.techStack = TechStackOf(aiResult)]
  /\ node' = "__end__"
  /\ UNCHANGED prompts
  /\ UNCHANGED <<coreVars, autoSaveVars, normVars, writeVars, providerVars>>

NextAnalysis ==
  \/ \E defaultTechStack \in DefaultTechStacks : AnalyzeProjectWithManager(defaultTechStack)
  \/ IdeaGeneratorInvokes
  \/ \E result \in IdeaAnswers : IdeaGeneratorReturns(result)
  \/ \E aiResult \in StackAnswers : TechRecommenderReturns(aiResult)

SpecAnalysis == InitFresh /\ [][NextAnalysis]_vars

(* ----------------- AutoSaveProvider, timeout by timeout ---------------- *)

\* The values a field is registered with.
SaveValues == 1..MaxFieldValue

\* clearTimeout(field.timeout): the timeout of that id is no longer pending; a
\* timeout that has fired or was cleared before is not among the pending ones.
ClearTimeout(pending, timeout) ==
  IF timeout = None THEN pending ELSE {t \in pending : t.id # timeout[1]}

\* registerField(key, value, onSave): the timeout the entry refers to is cleared;
\* for the value the entry already has the entry is written back; else a timeout
\* is set and the entry refers to it.
RegisterFieldCalled(key, value) ==
  /\ timerCount < MaxTimers
  /\ LET existingField == fieldsRef[key]
         cleared == IF existingField = None THEN timers
                    ELSE ClearTimeout(timers, existingField[1].timeout)
     IN IF existingField # None /\ existingField[1].value = value
          THEN /\ timers' = cleared
               /\ UNCHANGED <<fieldsRef, timerCount>>
          ELSE /\ timerCount' = timerCount + 1
               /\ timers' = cleared \cup {[id |-> timerCount', key |-> key, value |-> value]}
               /\ fieldsRef' = [fieldsRef EXCEPT
                                  ![key] = Some([value |-> value, timeout |-> Some(timerCount')])]
  /\ UNCHANGED <<saving, isSaving>>
  /\ UNCHANGED <<coreVars, autoSaveVars, normVars, analysisVars, writeVars>>

\* unregisterField(key): the timeout the entry refers to is cleared and the entry
\* deleted.
UnregisterFieldCalled(key) ==
  /\ fieldsRef[key] # None
  /\ timers' = ClearTimeout(timers, fieldsRef[key][1].timeout)
  /\ fieldsRef' = [fieldsRef EXCEPT ![key] = None]
  /\ UNCHANGED <<timerCount, saving, isSaving>>
  /\ UNCHANGED <<coreVars, autoSaveVars, normVars, analysisVars, writeVars>>

\* An onSave call that has not settled; byTimer tells the timeout callback from
\* triggerSave.
Save(key, value, byTimer) == [key |-> key, value |-> value, byTimer |-> byTimer]

\* triggerSave(key) up to its await: the timeout the entry refers to is cleared
\* and the reference set to null, setIsSaving(true), field.onSave(field.value).
TriggerSaveCalled(key) ==
  /\ fieldsRef[key] # None
  /\ Len(saving) < MaxSaves
  /\ LET field == fieldsRef[key][1]
     IN /\ timers' = ClearTimeout(timers, field.timeout)
        /\ fieldsRef' = [fieldsRef EXCEPT ![key] = Some([field EXCEPT !.timeout = None])]
        /\ saving' = Append(saving, Save(key, field.value, FALSE))
  /\ isSaving' = TRUE
  /\ UNCHANGED timerCount
  /\ UNCHANGED <<coreVars, autoSaveVars, normVars, analysisVars, writeVars>>

\* A pending timeout fires, its callback up to its await: setIsSaving(true),
\* onSave(value) with the value it was set with.
TimeoutFires(t) ==
  /\ t \in timers
  /\ Len(saving) < MaxSaves
  /\ timers' = timers \ {t}
  /\ saving' = Append(saving, Save(t.key, t.value, TRUE))
  /\ isSaving' = TRUE
  /\ UNCHANGED <<fieldsRef, timerCount>>
  /\ UNCHANGED <<coreVars, autoSaveVars, normVars, analysisVars, writeVars>>

\* The i-th outstanding onSave settles, resolved or rejected: finally
\* setIsSaving(false); the timeout callback also sets the timeout reference of the
\* entry the key has now to null.
SaveSettles(i) ==
  /\ i \in 1..Len(saving)
  /\ LET save == saving[i]
         field == fieldsRef[save.key]
     IN fieldsRef' = IF save.byTimer /\ field # None
                       THEN [fieldsRef EXCEPT
                               ![save.key] = Some([field[1] EXCEPT !.timeout = None])]
                       ELSE fieldsRef
  /\ saving' = SubSeq(saving, 1, i - 1) \o SubSeq(saving, i + 1, Len(saving))
  /\ isSaving' = FALSE
  /\ UNCHANGED <<timers, timerCount>>
  /\ UNCHANGED <<coreVars, autoSaveVars, normVars, analysisVars, writeVars>>

\* The provider's functions called in any order for two keys, the timeouts firing
\* and the saves settling at any time.
NextProvider ==
  \/ \E key \in AutoSaveKeys, value \in SaveValues : RegisterFieldCalled(key, value)
  \/ \E key \in AutoSaveKeys : UnregisterFieldCalled(key)
  \/ \E key \in AutoSaveKeys : TriggerSaveCalled(key)
  \/ \E t \in timers : TimeoutFires(t)
  \/ \E i \in 1..MaxSaves : SaveSettles(i)

SpecProvider == InitFresh /\ [][NextProvider]_vars

(* ------------------------- the step components ------------------------- *)

\* The PRD sections followed, of the sections handleRegenerateSection is called with.
PrdSections == {"summary", "personas"}

\* A content object without any field: `currentStep?.content || {}`. A field the
\* object does not have is None here.
NoContent ==
  [textInput |-> None, analysis |-> None, selectedIdea |-> None,
   refinedIdea |-> None, refinedTechStack |-> None, prdData |-> None,
   prdText |-> None, gettingStartedPrompt |-> None]

\* project.steps.find(step => step.id.includes('step_n')): Some(step), or None.
FindStep(project, n) ==
  LET i == FindIndex(project.steps, LAMBDA step : IdIncludesStep(step.id, n))
  IN IF i = -1 THEN None ELSE Some(project.steps[i + 1])

\* step?.content || {} of step n of the project.
StepContent(project, n) ==
  LET step == FindStep(project, n)
  IN IF step = None \/ step[1].content = Undefined THEN NoContent ELSE step[1].content[1]

\* What analyze-project resolves to: the ideas and a tech stack.
AnalysisResults == {[ideas |-> Contents, techStack |-> t] : t \in Contents}

\* IdeaRefinement.initialTechStack when the analysis has none: every field ''.
EmptyTechStack == 0

\* What ai-generate-prd resolves to, normalized: a PRD record.
PrdRecords == {[s \in PrdSections |-> v] : v \in Contents}

\* formatPrd: the text of a PRD record.
FormatPrd(data) == <<"# Product Requirements Document", data>>

\* An external call that has not settled, with what its handler closed over: the
\* project id, the project list of updateStepContent and completeStep,
\* currentStep.content and prdData of the render the handler belongs to; live while the component
\* instance that made the call is mounted.
Call(kind, key, pid, list, content, data) ==
  [kind |-> kind, key |-> key, pid |-> pid, projects |-> list, content |-> content,
   prdData |-> data, live |-> TRUE]

\* The state of the step components as one record.
Components ==
  [isAnalyzing |-> isAnalyzing, selectedIdea |-> selectedIdea,
   refinedIdea |-> refinedIdea, refinedTechStack |-> refinedTechStack,
   prdData |-> prdData, isLoading |-> isLoading,
   isGeneratingPrompt |-> isGeneratingPrompt, calls |-> calls]

\* The useState initial values of the components that read nothing of the project.
InitialComponents ==
  [isAnalyzing |-> FALSE, selectedIdea |-> None, refinedIdea |-> None,
   refinedTechStack |-> None, prdData |-> None, isLoading |-> {},
   isGeneratingPrompt |-> FALSE, calls |-> <<>>]

\* The state of the step components becomes c.
SetComponentState(c) ==
  /\ Len(c.calls) <= MaxCalls
  /\ isAnalyzing' = c.isAnalyzing
  /\ selectedIdea' = c.selectedIdea
  /\ refinedIdea' = c.refinedIdea
  /\ refinedTechStack' = c.refinedTechStack
  /\ prdData' = c.prdData
  /\ isLoading' = c.isLoading
  /\ isGeneratingPrompt' = c.isGeneratingPrompt
  /\ calls' = c.calls

SetComponents(c) ==
  /\ SetComponentState(c)
  /\ UNCHANGED <<error, autoSaveVars, unitVars>>

\* The number of the step whose component ProjectWorkspace renders, 0 for none.
ViewedStep(project, index) ==
  IF project = None THEN 0 ELSE project[1].steps[index + 1].id[2]

\* The step component is unmounted: its state is gone, its calls stay outstanding.
Unmount(c) ==
  [InitialComponents EXCEPT
     !.calls = [i \in 1..Len(c.calls) |-> [c.calls[i] EXCEPT !.live = FALSE]]]

\* PrdGeneration.handleGenerateAll up to its await.
GenerateAll(c, project, list) ==
  IF StepContent(project, 3).refinedIdea = None \/ FindStep(project, 4) = None
    THEN c
    ELSE [c EXCEPT !.isLoading = {"all"},
                   !.calls = Append(@, Call("prdAll", "", project.id, list,
                                            FindStep(project, 4)[1].content, None))]

\* PrdGeneration, the effect on [project.id]: the stored PRD is shown, or one is
\* generated.
PrdEffect(c, project, list) ==
  IF StepContent(project, 4).prdData # None
    THEN [c EXCEPT !.prdData = StepContent(project, 4).prdData]
  ELSE IF "all" \notin c.isLoading
    THEN GenerateAll(c, project, list)
  ELSE c

\* ProjectFinalization.handleGeneratePrompt and generatePrompt up to their await.
GeneratePrompt(c, project, list) ==
  IF StepContent(project, 4).prdData = None \/ FindStep(project, 5) = None
    THEN c
    ELSE [c EXCEPT !.isGeneratingPrompt = TRUE,
                   !.calls = Append(@, Call("gettingStarted", "", project.id, list,
                                            FindStep(project, 5)[1].content, None))]

\* ProjectFinalization, the effect that loads the stored prompt or generates one;
\* onStepUpdate is among its dependencies, so it runs again after every render of App.
PromptEffect(c, project, list) ==
  IF StepContent(project, 5).gettingStartedPrompt # None
    THEN c
    ELSE GeneratePrompt(c, project, list)

\* IdeaRefinement starting from its own empty defaults, whatever step 2 holds.
MountOwnDefaults(c, n, project, list) ==
  IF n = 2 THEN
    [c EXCEPT !.selectedIdea = StepContent(project, 2).selectedIdea]
  ELSE IF n = 3 THEN
    [c EXCEPT !.refinedIdea = StepContent(project, 3).refinedIdea,
              !.refinedTechStack = Some(EmptyTechStack)]
  ELSE IF n = 4 THEN PrdEffect(c, project, list)
  ELSE IF n = 5 THEN PromptEffect(c, project, list)
  ELSE c

\* The component of step n is mounted on the project: useState initial values
\* and mount effects.
Mount(c, n, project, list) ==
  IF n = 2 THEN
    [c EXCEPT !.selectedIdea = StepContent(project, 2).selectedIdea]
  ELSE IF n = 3 THEN
    LET stepContent == StepContent(project, 3)
        ideaGen == StepContent(project, 2)
        initialIdea == ideaGen.selectedIdea
        initialTechStack ==
          IF ideaGen.analysis # None THEN Some(ideaGen.analysis[1].techStack)
                                     ELSE Some(EmptyTechStack)
    IN [c EXCEPT
          !.refinedIdea =
            IF stepContent.refinedIdea # None THEN stepContent.refinedIdea ELSE initialIdea,
          !.refinedTechStack =
            IF stepContent.refinedTechStack # None THEN stepContent.refinedTechStack
                                                   ELSE initialTechStack]
  ELSE IF n = 4 THEN PrdEffect(c, project, list)
  ELSE IF n = 5 THEN PromptEffect(c, project, list)
  ELSE c

\* The step components after a render of App that follows a change of the
\* project list. ProjectWorkspace is first rendered with the new handlers and the
\* project of before (currentProject is set by an effect), then with the new
\* project; when the viewed step changes its component is replaced. Finally is
\* what the handler does after its await, if its component is still mounted.
Rendered(c, Finally(_)) ==
  LET oldView == ViewedStep(Project, currentStepIndex)
      newProject == IF currentProject' = None THEN None
                    ELSE FindProject(projects', currentProject'[1])
      newView == ViewedStep(newProject, currentStepIndex')
      first == IF oldView = 5 THEN PromptEffect(c, Project[1], projects') ELSE c
  IN IF newView = oldView
       THEN Finally(IF newView = 5 THEN PromptEffect(first, newProject[1], projects')
                                   ELSE first)
     ELSE IF newView = 0 THEN Unmount(first)
     ELSE Mount(Unmount(first), newView, newProject[1], projects')

AfterRender(c, Finally(_)) == SetComponents(Rendered(c, Finally))

\* The viewed step is step n, and no dialog is open.
Viewing(n) == Idle /\ ViewedStep(Project, currentStepIndex) = n

\* What an operation of a step component leaves alone when it writes nothing.
NoWrite ==
  UNCHANGED <<db, projects, loaded, currentProject, currentStepIndex,
              prevProjectRef, pendingChange, confirmCont>>

\* useDatabase.completeStep, called with `list` in its closure.
CompleteStepWith(list, pid, stepId, data) ==
  LET found == FindProject(list, pid)
  IN IF found = None
       THEN UNCHANGED <<db, projects, currentProject, currentStepIndex, prevProjectRef>>
       ELSE UpdateProject(CompleteStepProject(found[1], stepId, data))

(* ----------------------- actions of the step components ---------------- *)

\* useDatabase.loadProjects with the step component of the selected project mounted.
StageLoadProjects ==
  /\ LoadProjectsRenderer
  /\ AfterRender(Components, LAMBDA c : c)

\* The application is closed and started again: outstanding calls are gone with it.
StageRestart ==
  /\ RestartRenderer
  /\ SetComponents(InitialComponents)

StageCreateProject(pid) ==
  /\ CreateProjectRenderer(pid)
  /\ AfterRender(Components, LAMBDA c : c)

\* StepNavigation, a click on a step that can be reached, with the step components:
\* the component of the step left is unmounted, the one of the step clicked mounted.
StageStepClick(index) ==
  /\ Idle
  /\ Project # None
  /\ LET project == Project[1]
     IN /\ index \in 0..(Len(project.steps) - 1)
        /\ index # currentStepIndex
        /\ \/ index <= ActualCurrentStepIndex(project)
           \/ project.steps[index + 1].status = "completed"
  /\ currentStepIndex' = index
  /\ returned' = <<>>
  /\ lastOp' = Op("handleStepClick", currentProject[1], ForeignStepId, Undefined)
  /\ UNCHANGED <<db, projects, loaded, currentProject, prevProjectRef,
                 pendingChange, confirmCont>>
  /\ AfterRender(Components, LAMBDA c : c)

\* InputAnalysis.handleSubmit up to the await of analyze-project; the button is
\* disabled while isAnalyzing.
HandleSubmit ==
  /\ Viewing(1)
  /\ ~isAnalyzing
  /\ SetComponents([Components EXCEPT
       !.isAnalyzing = TRUE,
       !.calls = Append(@, Call("analysis", "", Project[1].id, projects, Undefined, None))])
  /\ NoWrite
  /\ returned' = <<>>
  /\ lastOp' = Op("handleSubmit", Project[1].id, StepId(Project[1].id, 1), Undefined)

\* The calls but the i-th.
RemoveCall(i) == SubSeq(calls, 1, i - 1) \o SubSeq(calls, i + 1, Len(calls))

\* analyze-project resolves: onComplete(completeData), then finally
\* setIsAnalyzing(false).
AnalysisResolves(i, result) ==
  /\ i \in 1..Len(calls)
  /\ calls[i].kind = "analysis"
  /\ LET call == calls[i]
         pid == call.pid
         completeData == Obj([NoContent EXCEPT !.textInput = Some("text"),
                                               !.analysis = Some(result)])
     IN /\ CompleteStepWith(call.projects, pid, StepId(pid, 1), completeData)
        /\ AfterRender([Components EXCEPT !.calls = RemoveCall(i)],
                       LAMBDA c : IF call.live THEN [c EXCEPT !.isAnalyzing = FALSE] ELSE c)
        /\ lastOp' = Op("analysisResolved", pid, StepId(pid, 1), completeData)
  /\ returned' = <<>>
  /\ UNCHANGED <<loaded, pendingChange, confirmCont>>

\* IdeaGeneration.handleSelectIdea
HandleSelectIdea(idea) ==
  /\ Viewing(2)
  /\ StepContent(Project[1], 1).analysis # None
  /\ idea \in StepContent(Project[1], 1).analysis[1].ideas
  /\ SetComponents([Components EXCEPT !.selectedIdea = Some(idea)])
  /\ NoWrite
  /\ returned' = <<>>
  /\ lastOp' = Op("handleSelectIdea", Project[1].id, StepId(Project[1].id, 2), Undefined)

\* IdeaGeneration.handleProceed: step 2 is completed with the analysis carried
\* forward and the selected idea.
HandleProceed ==
  /\ Viewing(2)
  /\ StepContent(Project[1], 1).analysis # None
  /\ selectedIdea # None
  /\ LET project == Project[1]
         currentStep == FindStep(project, 2)[1]
         updatedContent ==
           Obj([StepContent(project, 2) EXCEPT
                  !.analysis = StepContent(project, 1).analysis,
                  !.selectedIdea = selectedIdea])
     IN /\ CompleteStepWith(projects, project.id, currentStep.id, updatedContent)
        /\ AfterRender(Components, LAMBDA c : c)
        /\ lastOp' = Op("handleProceed", project.id, currentStep.id, updatedContent)
  /\ returned' = <<>>
  /\ UNCHANGED <<loaded, pendingChange, confirmCont>>

\* IdeaRefinement, an edit of the idea text: setRefinedIdea(e.target.value).
HandleRefinedIdeaChange(value) ==
  /\ Viewing(3)
  /\ StepContent(Project[1], 2).selectedIdea # None
  /\ refinedIdea # Some(value)
  /\ SetComponents([Components EXCEPT !.refinedIdea = Some(value)])
  /\ NoWrite
  /\ returned' = <<>>
  /\ lastOp' = Op("handleRefinedIdeaChange", Project[1].id, StepId(Project[1].id, 3), Undefined)

\* IdeaRefinement.handleTechStackChange
HandleTechStackChange(value) ==
  /\ Viewing(3)
  /\ StepContent(Project[1], 2).selectedIdea # None
  /\ refinedTechStack # Some(value)
  /\ SetComponents([Components EXCEPT !.refinedTechStack = Some(value)])
  /\ NoWrite
  /\ returned' = <<>>
  /\ lastOp' = Op("handleTechStackChange", Project[1].id, StepId(Project[1].id, 3), Undefined)

\* IdeaRefinement.handleGeneratePrd: handleSave through the onStepUpdate of
\* StepChangeWarning (held back when the step is completed), then onCompleteStep
\* of the same render, whose list is the one of before the save.
HandleGeneratePrd ==
  /\ Viewing(3)
  /\ StepContent(Project[1], 2).selectedIdea # None
  /\ LET project == Project[1]
         currentStep == FindStep(project, 3)[1]
         updatedContent ==
           Obj([StepContent(project, 3) EXCEPT
                  !.refinedIdea = refinedIdea,
                  !.refinedTechStack = refinedTechStack])
         heldBack == IsOnPreviousStep(project, currentStepIndex)
         saved == UpdateStepContentProject(project, currentStep.id, updatedContent)
         completed == CompleteStepProject(project, currentStep.id, updatedContent)
     IN /\ pendingChange' = IF heldBack
                               THEN Some([stepId |-> currentStep.id, content |-> updatedContent])
                               ELSE pendingChange
        /\ db' = StoreWrites(IF heldBack THEN db ELSE StoreWrites(db, saved), completed)
        /\ Render(ReplaceProject(IF heldBack THEN projects ELSE ReplaceProject(projects, saved),
                                 completed),
                  currentProject)
        /\ AfterRender(Components, LAMBDA c : c)
        /\ lastOp' = Op("handleGeneratePrd", project.id, currentStep.id, updatedContent)
  /\ returned' = <<>>
  /\ UNCHANGED <<loaded, confirmCont>>

\* PrdGeneration.handleGenerateAll from its button, disabled while isLoading.all.
HandleGenerateAll ==
  /\ Viewing(4)
  /\ "all" \notin isLoading
  /\ StepContent(Project[1], 3).refinedIdea # None
  /\ SetComponents(GenerateAll(Components, Project[1], projects))
  /\ NoWrite
  /\ returned' = <<>>
  /\ lastOp' = Op("handleGenerateAll", Project[1].id, StepId(Project[1].id, 4), Undefined)

\* PrdGeneration.updatePrdData of a handler whose render had currentStep.content
\* `content` and the list `list`: the content with the PRD record and its text.
UpdatePrdData(list, pid, content, newData) ==
  LET base == IF content = Undefined THEN NoContent ELSE content[1]
      updatedContent == Obj([base EXCEPT !.prdData = Some(newData),
                                         !.prdText = Some(FormatPrd(newData))])
  IN UpdateStepContent(list, pid, StepId(pid, 4), updatedContent)

\* ai-generate-prd resolves: the normalized record is shown and saved, then
\* finally setIsLoading({}).
GenerateAllResolves(i, record) ==
  /\ i \in 1..Len(calls)
  /\ calls[i].kind = "prdAll"
  /\ LET call == calls[i]
         pid == call.pid
     IN /\ UpdatePrdData(call.projects, pid, call.content, record)
        /\ AfterRender([Components EXCEPT
                          !.calls = RemoveCall(i),
                          !.prdData = IF call.live THEN Some(record) ELSE @],
                       LAMBDA c : IF call.live THEN [c EXCEPT !.isLoading = {}] ELSE c)
        /\ lastOp' = Op("generateAllResolved", pid, StepId(pid, 4), Obj(record))
  /\ returned' = <<>>
  /\ UNCHANGED <<loaded, pendingChange, confirmCont>>

\* PrdGeneration.handleRegenerateSection up to its await: the sections and their
\* buttons are rendered when isLoading.all is not set, the button of the section
\* is disabled while isLoading[sectionKey]; setIsLoading({ [sectionKey]: true }).
HandleRegenerateSection(sectionKey) ==
  /\ Viewing(4)
  /\ "all" \notin isLoading
  /\ sectionKey \notin isLoading
  /\ StepContent(Project[1], 3).refinedIdea # None
  /\ prdData # None
  /\ SetComponents([Components EXCEPT
       !.isLoading = {sectionKey},
       !.calls = Append(@, Call("prdSection", sectionKey, Project[1].id, projects,
                                FindStep(Project[1], 4)[1].content, prdData))])
  /\ NoWrite
  /\ returned' = <<>>
  /\ lastOp' = Op("handleRegenerateSection", Project[1].id, StepId(Project[1].id, 4), Undefined)

\* ai-regenerate-prd-section resolves: { ...prdData, [sectionKey]: normalized }
\* of the handler's render is shown and saved, then finally
\* setIsLoading({ [sectionKey]: false }).
RegenerateResolves(i, value) ==
  /\ i \in 1..Len(calls)
  /\ calls[i].kind = "prdSection"
  /\ LET call == calls[i]
         pid == call.pid
         updatedPrdData == [call.prdData[1] EXCEPT ![call.key] = value]
     IN /\ UpdatePrdData(call.projects, pid, call.content, updatedPrdData)
        /\ AfterRender([Components EXCEPT
                          !.calls = RemoveCall(i),
                          !.prdData = IF call.live THEN Some(updatedPrdData) ELSE @],
                       LAMBDA c : IF call.live THEN [c EXCEPT !.isLoading = {}] ELSE c)
        /\ lastOp' = Op("regenerateResolved", pid, StepId(pid, 4), <<call.key, value>>)
  /\ returned' = <<>>
  /\ UNCHANGED <<loaded, pendingChange, confirmCont>>

\* PrdGeneration, an edit of a field of a section (handleSummaryChange,
\* handlePersonaChange, ...): updatePrdData({ ...prdData, [section]: edited }).
HandlePrdChange(sectionKey, value) ==
  /\ Viewing(4)
  /\ "all" \notin isLoading
  /\ prdData # None
  /\ prdData[1][sectionKey] # value
  /\ LET project == Project[1]
         updatedData == [prdData[1] EXCEPT ![sectionKey] = value]
     IN /\ UpdatePrdData(projects, project.id, FindStep(project, 4)[1].content, updatedData)
        /\ AfterRender([Components EXCEPT !.prdData = Some(updatedData)], LAMBDA c : c)
        /\ lastOp' = Op("handlePrdChange", project.id, StepId(project.id, 4), Obj(updatedData))
  /\ returned' = <<>>
  /\ UNCHANGED <<loaded, pendingChange, confirmCont>>

\* PrdGeneration.handleProceedToNext: step 4 is completed with the PRD shown.
HandleProceedToNext ==
  /\ Viewing(4)
  /\ "all" \notin isLoading
  /\ prdData # None
  /\ LET project == Project[1]
         data == Obj([NoContent EXCEPT !.prdData = prdData,
                                       !.prdText = Some(FormatPrd(prdData[1]))])
     IN /\ CompleteStepWith(projects, project.id, StepId(project.id, 4), data)
        /\ AfterRender(Components, LAMBDA c : c)
        /\ lastOp' = Op("handleProceedToNext", project.id, StepId(project.id, 4), data)
  /\ returned' = <<>>
  /\ UNCHANGED <<loaded, pendingChange, confirmCont>>

\* ProjectFinalization.handleGeneratePrompt up to its await; the button is
\* disabled while isGeneratingPrompt.
HandleGeneratePrompt ==
  /\ Viewing(5)
  /\ ~isGeneratingPrompt
  /\ StepContent(Project[1], 4).prdData # None
  /\ SetComponents(GeneratePrompt(Components, Project[1], projects))
  /\ NoWrite
  /\ returned' = <<>>
  /\ lastOp' = Op("handleGeneratePrompt", Project[1].id, StepId(Project[1].id, 5), Undefined)

\* ai-generate-getting-started resolves: the prompt is saved in the content of
\* step 5, then finally setIsGeneratingPrompt(false).
PromptResolves(i, prompt) ==
  /\ i \in 1..Len(calls)
  /\ calls[i].kind = "gettingStarted"
  /\ LET call == calls[i]
         pid == call.pid
         base == IF call.content = Undefined THEN NoContent ELSE call.content[1]
         updatedContent == Obj([base EXCEPT !.gettingStartedPrompt = Some(prompt)])
     IN /\ UpdateStepContent(call.projects, pid, StepId(pid, 5), updatedContent)
        /\ AfterRender([Components EXCEPT !.calls = RemoveCall(i)],
                       LAMBDA c : IF call.live THEN [c EXCEPT !.isGeneratingPrompt = FALSE]
                                               ELSE c)
        /\ lastOp' = Op("promptResolved", pid, StepId(pid, 5), updatedContent)
  /\ returned' = <<>>
  /\ UNCHANGED <<loaded, pendingChange, confirmCont>>

\* The handler without its finally: the loading flag stays set.
RejectedKeepsFlag(c, call) == c

\* What the catch and finally of the handler of a call do when the call rejects.
Rejected(c, call) ==
  IF ~call.live THEN c
  ELSE IF call.kind = "analysis" THEN [c EXCEPT !.isAnalyzing = FALSE]
  ELSE IF call.kind = "prdAll" THEN [c EXCEPT !.isLoading = {}]
  ELSE IF call.kind = "prdSection" THEN [c EXCEPT !.isLoading = {}]
  ELSE [c EXCEPT !.isGeneratingPrompt = FALSE]

\* An external call rejects: the error is logged, the loading flag is cleared.
CallRejects(i) ==
  /\ i \in 1..Len(calls)
  /\ SetComponents(Rejected([Components EXCEPT !.calls = RemoveCall(i)], calls[i]))
  /\ NoWrite
  /\ returned' = <<>>
  /\ lastOp' = [op |-> "callRejected", pid |-> 0, step |-> ForeignStepId,
                data |-> <<calls[i].kind, calls[i].key, calls[i].live>>]

\* One analysis result with one idea, for the specifications that follow the
\* steps after the idea is chosen.
OneAnalysis == {[ideas |-> {1}, techStack |-> 1]}

\* The user follows the pipeline with the controls of the viewed step's
\* component; the PRD of step 4 is generated, edited and regenerated with every
\* value, the steps before it with one.
NextPrd ==
  \/ StageLoadProjects
  \/ StageRestart
  \/ \E pid \in ProjectIds : StageCreateProject(pid)
  \/ HandleSubmit
  \/ \E i \in 1..MaxCalls, result \in OneAnalysis : AnalysisResolves(i, result)
  \/ \E idea \in {1} : HandleSelectIdea(idea)
  \/ HandleProceed
  \/ HandleGeneratePrd
  \/ HandleGenerateAll
  \/ \E i \in 1..MaxCalls, record \in PrdRecords : GenerateAllResolves(i, record)
  \/ \E sectionKey \in PrdSections : HandleRegenerateSection(sectionKey)
  \/ \E i \in 1..MaxCalls, value \in Contents : RegenerateResolves(i, value)
  \/ \E sectionKey \in PrdSections, value \in Contents : HandlePrdChange(sectionKey, value)
  \/ HandleProceedToNext
  \/ HandleGeneratePrompt
  \/ \E i \in 1..MaxCalls, prompt \in {1} : PromptResolves(i, prompt)
  \/ \E i \in 1..MaxCalls : CallRejects(i)

SpecPrd == InitFresh /\ [][NextPrd]_vars

\* The user follows the pipeline up to the PRD step, with every analysis result
\* and every idea.
NextIdeas ==
  \/ StageLoadProjects
  \/ StageRestart
  \/ \E pid \in ProjectIds : StageCreateProject(pid)
  \/ HandleSubmit
  \/ \E i \in 1..MaxCalls, result \in AnalysisResults : AnalysisResolves(i, result)
  \/ \E idea \in Contents : HandleSelectIdea(idea)
  \/ HandleProceed
  \/ \E value \in Contents : HandleRefinedIdeaChange(value)
  \/ \E value \in Contents : HandleTechStackChange(value)
  \/ HandleGeneratePrd
  \/ \E i \in 1..MaxCalls : CallRejects(i)

SpecIdeas == InitFresh /\ [][NextIdeas]_vars

(* ------------------- updateProject, write by write --------------------- *)

\* An updateProject call that has not finished: the handler that made it, the
\* project it was called with, and the write it makes next (0 is db-update-project,
\* j the db-update-step of step j, one more is setProjects).
Write(handler, op, updatedProject, data) ==
  [handler |-> handler, op |-> op, updatedProject |-> updatedProject, data |-> data,
   next |-> 0]

\* The outstanding calls but the i-th.
RemoveWrite(i) == SubSeq(inFlight, 1, i - 1) \o SubSeq(inFlight, i + 1, Len(inFlight))

\* The main process handles the next ipc.invoke of the i-th outstanding updateProject.
WriteRow(i) ==
  /\ i \in 1..Len(inFlight)
  /\ LET w == inFlight[i]
         p == w.updatedProject
     IN /\ w.next <= Len(p.steps)
        /\ db' = IF w.next = 0
                   THEN DbUpdateProject(db, p.id, p.name, p.status)
                   ELSE LET st == p.steps[w.next]
                        IN DbUpdateProjectStep(db, st.id, st.title, st.status,
                                               Stringify(st.content))
        /\ inFlight' = [inFlight EXCEPT ![i].next = @ + 1]
        /\ lastOp' = Op("write", p.id, IF w.next = 0 THEN ForeignStepId ELSE p.steps[w.next].id,
                        w.data)
  /\ returned' = <<TRUE>>
  /\ UNCHANGED <<projects, loaded, currentProject, currentStepIndex, prevProjectRef,
                 pendingChange, confirmCont, componentVars, error>>
  /\ UNCHANGED <<autoSaveVars, normVars, analysisVars, providerVars>>

\* The last write of the i-th outstanding updateProject has returned:
\* setProjects(prev => prev.map(p => p.id === updatedProject.id ? updatedProject : p)),
\* and the render that follows.
WriteDone(i) ==
  /\ i \in 1..Len(inFlight)
  /\ LET w == inFlight[i]
         p == w.updatedProject
     IN /\ w.next = Len(p.steps) + 1
        /\ Render(ReplaceProject(projects, p), currentProject)
        /\ SetComponentState(Rendered(Components, LAMBDA c : c))
        /\ inFlight' = RemoveWrite(i)
        /\ lastOp' = Op(w.handler, p.id, ForeignStepId, w.data)
  /\ returned' = <<>>
  /\ UNCHANGED <<db, loaded, pendingChange, confirmCont, error>>
  /\ UNCHANGED <<autoSaveVars, normVars, analysisVars, providerVars>>

\* IdeaRefinement.handleGeneratePrd up to the first await of each updateProject:
\* handleSave calls the onStepUpdate of StepChangeWarning, which starts
\* updateStepContent without returning its promise (or holds the edit back when the
\* step is completed), so `await handleSave()` is over before any write has
\* returned, and onCompleteStep of the same render starts completeStep.
HandleGeneratePrdStarts ==
  /\ Viewing(3)
  /\ StepContent(Project[1], 2).selectedIdea # None
  /\ Len(inFlight) + 2 <= MaxInFlight
  /\ LET project == Project[1]
         currentStep == FindStep(project, 3)[1]
         updatedContent ==
           Obj([StepContent(project, 3) EXCEPT
                  !.refinedIdea = refinedIdea,
                  !.refinedTechStack = refinedTechStack])
         heldBack == IsOnPreviousStep(project, currentStepIndex)
         saved == UpdateStepContentProject(project, currentStep.id, updatedContent)
         completed == CompleteStepProject(project, currentStep.id, updatedContent)
     IN /\ pendingChange' = IF heldBack
                               THEN Some([stepId |-> currentStep.id, content |-> updatedContent])
                               ELSE pendingChange
        /\ inFlight' =
             inFlight
             \o (IF heldBack THEN <<>>
                 ELSE <<Write("handleGeneratePrd", "updateStepContent", saved, updatedContent)>>)
             \o <<Write("handleGeneratePrd", "completeStep", completed, updatedContent)>>
        /\ lastOp' = Op("handleGeneratePrdStarts", project.id, currentStep.id, updatedContent)
  /\ returned' = <<>>
  /\ UNCHANGED <<db, projects, loaded, currentProject, currentStepIndex, prevProjectRef,
                 confirmCont, componentVars, error>>
  /\ UNCHANGED <<autoSaveVars, normVars, analysisVars, providerVars>>

\* The user follows the pipeline to the refinement step, each operation before it
\* finishing before the next starts, and generates the PRD; the writes of
\* updateStepContent and of completeStep are handled in any order.
NextGeneratePrd ==
  \/ Quiet /\ StageLoadProjects
  \/ \E pid \in ProjectIds : Quiet /\ StageCreateProject(pid)
  \/ Quiet /\ HandleSubmit
  \/ \E i \in 1..MaxCalls, result \in OneAnalysis : Quiet /\ AnalysisResolves(i, result)
  \/ \E idea \in {1} : Quiet /\ HandleSelectIdea(idea)
  \/ Quiet /\ HandleProceed
  \/ \E value \in Contents : Quiet /\ HandleRefinedIdeaChange(value)
  \/ HandleGeneratePrdStarts
  \/ \E i \in 1..MaxInFlight : WriteRow(i)
  \/ \E i \in 1..MaxInFlight : WriteDone(i)

SpecGeneratePrd == InitFresh /\ [][NextGeneratePrd]_vars

(* ------------------------- renaming the project ------------------------ *)

\* The texts the user types into the text input of step 1.
TextInputs == {"text", "edited"}

\* The names the user gives the project.
ProjectNames == {NewProjectName, "Renamed"}

\* App.handleProjectUpdate, called with `list` in its closure: the project of the
\* list with the updates spread over it is passed to updateProject.
HandleProjectUpdate(list, pid, name) ==
  LET found == FindProject(list, pid)
  IN IF found = None
       THEN UNCHANGED <<db, projects, currentProject, currentStepIndex, prevProjectRef>>
       ELSE UpdateProject([found[1] EXCEPT !.name = name])

\* InputAnalysis.handleNameSave, run by the auto-save of the project name with the
\* handlers of the latest render.
HandleNameSave(name) ==
  /\ Viewing(1)
  /\ Project[1].name # name
  /\ HandleProjectUpdate(projects, Project[1].id, name)
  /\ AfterRender(Components, LAMBDA c : c)
  /\ lastOp' = Op("handleNameSave", Project[1].id, ForeignStepId, Obj(name))
  /\ returned' = <<>>
  /\ UNCHANGED <<loaded, pendingChange, confirmCont>>

\* InputAnalysis.handleTextInputSave, run by the auto-save of the text input:
\* onStepUpdate(currentStep.id, { ...stepContent, textInput: text }) through
\* StepChangeWarning, which holds the edit back when step 1 is completed.
HandleTextInputSave(text) ==
  /\ Viewing(1)
  /\ StepContent(Project[1], 1).textInput # Some(text)
  /\ LET project == Project[1]
         currentStep == FindStep(project, 1)[1]
         updatedContent == Obj([StepContent(project, 1) EXCEPT !.textInput = Some(text)])
         heldBack == IsOnPreviousStep(project, currentStepIndex)
     IN /\ pendingChange' = IF heldBack
                               THEN Some([stepId |-> currentStep.id, content |-> updatedContent])
                               ELSE pendingChange
        /\ IF heldBack
             THEN UNCHANGED <<db, projects, currentProject, currentStepIndex, prevProjectRef>>
             ELSE UpdateStepContent(projects, project.id, currentStep.id, updatedContent)
        /\ AfterRender(Components, LAMBDA c : c)
        /\ lastOp' = Op("updateStepContent", project.id, currentStep.id, updatedContent)
  /\ returned' = <<>>
  /\ UNCHANGED <<loaded, confirmCont>>

\* The user renames the project and edits the text of step 1 while analyses are
\* outstanding; steps that are completed are viewed again.
NextRename ==
  \/ StageLoadProjects
  \/ \E pid \in ProjectIds : StageCreateProject(pid)
  \/ \E index \in 0..1 : StageStepClick(index)
  \/ HandleSubmit
  \/ \E i \in 1..MaxCalls, result \in OneAnalysis : AnalysisResolves(i, result)
  \/ \E name \in ProjectNames : HandleNameSave(name)
  \/ \E text \in TextInputs : HandleTextInputSave(text)
  \/ HandleCancelChange

SpecRename == InitFresh /\ [][NextRename]_vars

(* --------------------- auto-saves, write by write ---------------------- *)

\* InputAnalysis.handleNameSave up to the first await of updateProject:
\* App.handleProjectUpdate builds { ...project, ...updates } from the list of the
\* latest render.
HandleNameSaveStarts(name) ==
  /\ Viewing(1)
  /\ Project[1].name # name
  /\ Len(inFlight) < MaxInFlight
  /\ inFlight' = Append(inFlight,
                        Write("handleNameSave", "updateProject",
                              [Project[1] EXCEPT !.name = name], Obj(name)))
  /\ lastOp' = Op("handleNameSaveStarts", Project[1].id, ForeignStepId, Obj(name))
  /\ returned' = <<>>
  /\ UNCHANGED <<db, projects, loaded, currentProject, currentStepIndex, prevProjectRef,
                 pendingChange, confirmCont, componentVars, error>>
  /\ UNCHANGED <<autoSaveVars, normVars, analysisVars, providerVars>>

\* InputAnalysis.handleTextInputSave up to the first await of updateProject, or
\* held back by StepChangeWarning when step 1 is completed.
HandleTextInputSaveStarts(text) ==
  /\ Viewing(1)
  /\ StepContent(Project[1], 1).textInput # Some(text)
  /\ Len(inFlight) < MaxInFlight
  /\ LET project == Project[1]
         currentStep == FindStep(project, 1)[1]
         updatedContent == Obj([StepContent(project, 1) EXCEPT !.textInput = Some(text)])
         heldBack == IsOnPreviousStep(project, currentStepIndex)
     IN /\ pendingChange' = IF heldBack
                               THEN Some([stepId |-> currentStep.id, content |-> updatedContent])
                               ELSE pendingChange
        /\ inFlight' =
             IF heldBack THEN inFlight
             ELSE Append(inFlight,
                         Write("handleTextInputSave", "updateStepContent",
                               UpdateStepContentProject(project, currentStep.id, updatedContent),
                               updatedContent))
        /\ lastOp' = Op("handleTextInputSaveStarts", project.id, currentStep.id, updatedContent)
  /\ returned' = <<>>
  /\ UNCHANGED <<db, projects, loaded, currentProject, currentStepIndex, prevProjectRef,
                 confirmCont, componentVars, error>>
  /\ UNCHANGED <<autoSaveVars, normVars, analysisVars, providerVars>>

\* The two auto-saves of step 1 run while each other's writes are outstanding;
\* the writes are handled in any order.
NextWrites ==
  \/ Quiet /\ StageLoadProjects
  \/ \E pid \in ProjectIds : Quiet /\ StageCreateProject(pid)
  \/ \E name \in ProjectNames : HandleNameSaveStarts(name)
  \/ \E text \in TextInputs : HandleTextInputSaveStarts(text)
  \/ \E i \in 1..MaxInFlight : WriteRow(i)
  \/ \E i \in 1..MaxInFlight : WriteDone(i)

SpecWrites == InitFresh /\ [][NextWrites]_vars

\* One analysis result with every idea, for the specification of the re-selection.
EveryIdea == {[ideas |-> Contents, techStack |-> 1]}

\* The user follows the pipeline up to the PRD step, goes back to a step that is
\* completed, the idea step, and selects an idea again; the idea text is not
\* edited in step 3.
NextReselect ==
  \/ StageLoadProjects
  \/ \E pid \in ProjectIds : StageCreateProject(pid)
  \/ \E index \in {1} : StageStepClick(index)
  \/ HandleSubmit
  \/ \E i \in 1..MaxCalls, result \in EveryIdea : AnalysisResolves(i, result)
  \/ \E idea \in Contents : HandleSelectIdea(idea)
  \/ HandleProceed
  \/ HandleGeneratePrd
  \/ \E i \in 1..MaxCalls : CallRejects(i)

SpecReselect == InitFresh /\ [][NextReselect]_vars

(* ------------------ deleting with operations outstanding --------------- *)

\* App.handleDeleteProject with the step components: the component of the deleted
\* project is unmounted, its calls stay outstanding.
StageDeleteProject(pid, together) ==
  /\ HandleDeleteProjectRenderer(pid, together)
  /\ AfterRender(Components, LAMBDA c : c)

\* No outstanding call and no outstanding updateProject is about the project.
NothingOutstandingFor(pid) ==
  /\ \A i \in 1..Len(calls) : calls[i].pid # pid
  /\ \A i \in 1..Len(inFlight) : inFlight[i].updatedProject.id # pid

\* A project is created, analysed and edited, and deleted while the analysis or
\* the writes of an auto-save are outstanding; project ids are unique, so the id of
\* a project is not given to a new one while something of the old one is outstanding.
NextDeleteCalls ==
  \/ Quiet /\ StageLoadProjects
  \/ \E pid \in ProjectIds : NothingOutstandingFor(pid) /\ StageCreateProject(pid)
  \/ HandleSubmit
  \/ \E i \in 1..MaxCalls, result \in OneAnalysis : AnalysisResolves(i, result)
  \/ \E text \in TextInputs : HandleTextInputSaveStarts(text)
  \/ \E i \in 1..MaxInFlight : WriteRow(i)
  \/ \E i \in 1..MaxInFlight : WriteDone(i)
  \/ \E pid \in ProjectIds, together \in BOOLEAN : StageDeleteProject(pid, together)

SpecDeleteCalls == InitFresh /\ [][NextDeleteCalls]_vars

\* One PRD record, for the specification that follows the external calls.
OnePrdRecord == {[s \in PrdSections |-> 1]}

\* The user follows the pipeline and makes every external call of the four
\* stages that have one; each call resolves with one value or rejects.
NextCalls ==
  \/ StageLoadProjects
  \/ StageRestart
  \/ \E pid \in ProjectIds : StageCreateProject(pid)
  \/ HandleSubmit
  \/ \E i \in 1..MaxCalls, result \in OneAnalysis : AnalysisResolves(i, result)
  \/ \E idea \in {1} : HandleSelectIdea(idea)
  \/ HandleProceed
  \/ HandleGeneratePrd
  \/ HandleGenerateAll
  \/ \E i \in 1..MaxCalls, record \in OnePrdRecord : GenerateAllResolves(i, record)
  \/ \E sectionKey \in PrdSections : HandleRegenerateSection(sectionKey)
  \/ \E i \in 1..MaxCalls, value \in {1} : RegenerateResolves(i, value)
  \/ HandleProceedToNext
  \/ HandleGeneratePrompt
  \/ \E i \in 1..MaxCalls, prompt \in {1} : PromptResolves(i, prompt)
  \/ \E i \in 1..MaxCalls : CallRejects(i)

SpecCalls == InitFresh /\ [][NextCalls]_vars

(* ------------------------------- claims -------------------------------- *)

\* No step of the list is completed after a step that is not.
StepsCompletedInOrder(steps) ==
  \A i, j \in 1..Len(steps) :
    (i < j /\ steps[j].status = "completed") => steps[i].status = "completed"

\* C1: with no confirmed rewind among the operations, no step is completed
\* while an earlier step is not completed, in the project list and in the store.
C1_CompletedInOrder ==
  /\ \A i \in 1..Len(projects) : StepsCompletedInOrder(projects[i].steps)
  /\ \A i \in 1..Len(db) : StepsCompletedInOrder(db[i].steps)

\* C2: with no confirmed rewind among the operations, a step that is completed
\* stays completed, in the project list and in the store.
KeepsCompleted(before, after) ==
  \A i \in 1..Len(before) : \A k \in 1..Len(after) :
    before[i].id = after[k].id =>
      \A j \in 1..Len(before[i].steps) :
        (j <= Len(after[k].steps) /\ before[i].steps[j].status = "completed")
          => after[k].steps[j].status = "completed"

C2_AdvanceMonotonic ==
  [][KeepsCompleted(db, db') /\ KeepsCompleted(projects, projects')]_vars

\* The steps of a project after a rewind to the step with id stepId whose edit
\* was content: earlier steps completed, that step in-progress with the content,
\* later steps pending.
IsRewoundTo(steps, stepId, ContentOf(_), content) ==
  \E k \in 1..Len(steps) :
    /\ steps[k].id = stepId
    /\ steps[k].status = "in-progress"
    /\ ContentOf(steps[k]) = content
    /\ \A j \in 1..Len(steps) :
         /\ j < k => steps[j].status = "completed"
         /\ j > k => steps[j].status = "pending"

\* C3: when the edit of a completed step has been confirmed and the handler has
\* finished, the project is rewound to that step and holds the edited content,
\* with project status in-progress, in the project list and in the store.
C3_ConfirmedEditRewinds ==
  lastOp.op = "handleConfirmChangeDone" =>
    /\ \A i \in 1..Len(projects) :
         projects[i].id = lastOp.pid =>
           /\ projects[i].status = "in-progress"
           /\ IsRewoundTo(projects[i].steps, lastOp.step,
                          LAMBDA st : st.content, lastOp.data)
    /\ \A i \in 1..Len(db) :
         db[i].id = lastOp.pid =>
           /\ db[i].status = "in-progress"
           /\ IsRewoundTo(db[i].steps, lastOp.step,
                          LAMBDA st : Parse(st.content), lastOp.data)

\* The project status and every step status of the store are the same in both.
SameStatuses(before, after) ==
  /\ Len(before) = Len(after)
  /\ \A i \in 1..Len(before) :
       /\ before[i].id = after[i].id
       /\ before[i].status = after[i].status
       /\ Len(before[i].steps) = Len(after[i].steps)
       /\ \A j \in 1..Len(before[i].steps) :
            before[i].steps[j].status = after[i].steps[j].status

\* C4: a call of updateStepContent leaves the project status and every step
\* status of the store as they were immediately before the call.
C4_UpdateContentKeepsStatus ==
  [][lastOp'.op \in {"updateStepContent", "handleConfirmChangeDone"}
       => SameStatuses(db, db')]_vars

\* C5: completeStep with a step id that is not a step of the project changes
\* neither the project list nor the store.
C5_ForeignStepIsNoOp ==
  [][(lastOp'.op = "completeStep" /\ lastOp'.step = ForeignStepId)
       => (db' = db /\ projects' = projects)]_vars

\* C6: completeStep on step k completes step k with the given content; the next
\* step becomes pending only if it was pending, and keeps an in-progress or
\* completed status; every other step keeps its status and content.
CompleteStepEffect(before, after, stepId, data) ==
  /\ Len(after) = Len(before)
  /\ \A j \in 1..Len(before) :
       IF before[j].id = stepId
         THEN after[j].status = "completed" /\ after[j].content = data
         ELSE after[j].status = before[j].status /\ after[j].content = before[j].content

C6_CompleteStepFrame ==
  [][lastOp'.op = "completeStep" =>
       /\ \A i \in 1..Len(projects) :
            projects[i].id = lastOp'.pid =>
              CompleteStepEffect(projects[i].steps, projects'[i].steps,
                                 lastOp'.step, lastOp'.data)
       /\ \A i \in 1..Len(db) :
            db[i].id = lastOp'.pid =>
              CompleteStepEffect(db[i].steps, db'[i].steps,
                                 lastOp'.step, Stringify(lastOp'.data))]_vars

\* The project status derived from the step statuses.
DerivedStatus(steps) ==
  IF \A j \in 1..Len(steps) : steps[j].status = "completed" THEN "completed"
  ELSE IF \A j \in 1..Len(steps) : steps[j].status = "pending" THEN "draft"
  ELSE "in-progress"

\* C7: the project status is completed iff all steps are completed, draft iff
\* no step has left pending, in-progress otherwise, in the list and in the store.
C7_StatusDerived ==
  /\ \A i \in 1..Len(projects) : projects[i].status = DerivedStatus(projects[i].steps)
  /\ \A i \in 1..Len(db) : db[i].status = DerivedStatus(db[i].steps)

\* The fixed titles of the five steps, in order.
FixedTitles ==
  <<"Input Analysis", "Idea Generation", "Idea Refinement",
    "PRD Generation", "Project Finalization">>

ActiveIndex(statuses) ==
  IF \E j \in 1..Len(statuses) : statuses[j] # "completed"
    THEN (CHOOSE j \in 1..Len(statuses) :
            /\ statuses[j] # "completed"
            /\ \A h \in 1..Len(statuses) : statuses[h] # "completed" => j <= h) - 1
    ELSE Len(statuses) - 1

C10_CancelChangesNothing ==
  [][/\ lastOp'.op \in {"handleStepUpdate", "handleCancelChange"}
          => (db' = db /\ projects' = projects)
     /\ lastOp'.op = "handleCancelChange" => pendingChange' = None]_vars

C10_Cancelled ==
  /\ lastOp.op = "handleCancelChange"
  /\ pendingChange = None
  /\ \E i \in 1..Len(projects) : \E j \in 1..Len(projects[i].steps) :
       projects[i].steps[j].id = lastOp.step /\ projects[i].steps[j].status = "completed"

\* C11: a content update written without the confirmation of the dialog is never
\* the update of a step whose stored status is completed, for each of the five
\* steps; the update written after a confirmation leaves that step in-progress
\* and every later step pending.
C11_CompletedEditOnlyByRewind ==
  [][/\ lastOp'.op = "updateStepContent" =>
          \A i \in 1..Len(db) : db[i].id = lastOp'.pid =>
            \A j \in 1..Len(db[i].steps) :
              db[i].steps[j].id = lastOp'.step => db[i].steps[j].status # "completed"
     /\ lastOp'.op = "handleConfirmChangeDone" =>
          \A i \in 1..Len(db') : db'[i].id = lastOp'.pid =>
            IsRewoundTo(db'[i].steps, lastOp'.step,
                        LAMBDA st : Parse(st.content), lastOp'.data)]_vars

CallKinds == {"analysis", "prdAll", "prdSection", "gettingStarted"}

\* The control that makes a call of the kind (and section) can be used.
CanInvoke(kind, key) ==
  IF kind = "analysis" THEN Viewing(1) /\ ~isAnalyzing
  ELSE IF kind = "prdAll" THEN
    /\ Viewing(4)
    /\ "all" \notin isLoading
    /\ StepContent(Project[1], 3).refinedIdea # None
  ELSE IF kind = "prdSection" THEN
    /\ Viewing(4)
    /\ "all" \notin isLoading
    /\ key \notin isLoading
    /\ StepContent(Project[1], 3).refinedIdea # None
    /\ prdData # None
  ELSE
    /\ Viewing(5)
    /\ ~isGeneratingPrompt
    /\ StepContent(Project[1], 4).prdData # None

\* C12: when an external call rejects, nothing is written (the store and the
\* project list are as before), and if the component that made the call is still
\* mounted its loading flag is cleared and its control can be used again.
C12_RejectedCallWritesNothing ==
  [][lastOp'.op = "callRejected" =>
       /\ db' = db
       /\ projects' = projects
       /\ \A kind \in CallKinds, key \in PrdSections \cup {""} :
            lastOp'.data = <<kind, key, TRUE>> => CanInvoke(kind, key)']_vars

C12_SectionCallRejected ==
  /\ lastOp.op = "callRejected"
  /\ lastOp.data = <<"prdSection", "summary", TRUE>>
  /\ prdData # None
  /\ isLoading = {}


FailedOps == {"completeStepFailed", "updateStepContentFailed", "handleConfirmChangeFailed"}

\* C13: an operation whose store write fails leaves the in-memory project list
\* as it was, for completeStep, updateStepContent and the reset of a rewind,
\* whichever of the writes of updateProject is the one that fails.
C13_FailedWriteLeavesList ==
  [][lastOp'.op \in FailedOps => projects' = projects]_vars


\* C14: at any time at most one call of a kind is outstanding for a step: no
\* two of the calls that have not settled were started by the same control
\* (the same kind, and for the regeneration of a section the same section) of
\* the same project.
C14_OneCallPerControl ==
  \A i, j \in 1..Len(calls) :
    (i # j /\ calls[i].pid = calls[j].pid /\ calls[i].kind = calls[j].kind)
      => calls[i].key # calls[j].key


\* The PRD record that the store holds for the project, None when step 4 has none.
StoredPrdData(d, pid) ==
  LET found == FindProject(Map(DbGetAllProjects(d), ConvertToUIProject), pid)
  IN IF found = None THEN None ELSE StepContent(found[1], 4).prdData

\* C15: when the regeneration of section s completes, every other section of
\* the stored PRD record keeps the value the store held just before, whatever
\* edits and regenerations of other sections were made while the call was
\* outstanding.
C15_RegenerationKeepsOtherSections ==
  [][lastOp'.op = "regenerateResolved" =>
       \A s \in PrdSections :
         (s # lastOp'.data[1] /\ StoredPrdData(db, lastOp'.pid) # None)
           => /\ StoredPrdData(db', lastOp'.pid) # None
              /\ StoredPrdData(db', lastOp'.pid)[1][s] = StoredPrdData(db, lastOp'.pid)[1][s]]_vars


\* C16: deleting a project removes it, with its steps, from the store and from
\* the project list and leaves every other project of the store and of the list
\* as it was; deleting an id the store does not hold returns false and leaves
\* the store as it was.
C16_DeleteRemovesOnlyThatProject ==
  [][/\ lastOp'.op = "handleDeleteProject" =>
          /\ FindProject(db', lastOp'.pid) = None
          /\ FindProject(projects', lastOp'.pid) = None
          /\ \A i \in 1..Len(db') : \A j \in 1..Len(db'[i].steps) :
                db'[i].steps[j].id[1] # lastOp'.pid
          /\ \A q \in TwoProjectIds \ {lastOp'.pid} :
                /\ FindProject(db', q) = FindProject(db, q)
                /\ FindProject(projects', q) = FindProject(projects, q)
     /\ lastOp'.op = "dbDeleteProject" =>
          /\ returned' = <<FindProject(db, lastOp'.pid) # None>>
          /\ FindProject(db, lastOp'.pid) = None => db' = db
          /\ \A q \in TwoProjectIds \ {lastOp'.pid} :
                FindProject(db', q) = FindProject(db, q)]_vars

\* One of two projects with completed steps has just been deleted through the
\* sidebar, the other is still stored and listed.
C16_DeletedOneOfTwo ==
  /\ lastOp.op = "handleDeleteProject"
  /\ returned = <<TRUE>>
  /\ Len(db) = 1
  /\ Len(projects) = 1
  /\ db[1].id # lastOp.pid
  /\ db[1].steps[1].status = "completed"


\* C17: on a fresh project, when stage 2 is completed with the selected idea X,
\* stage 3 is shown and the refined idea it presents is X, stage 2's content
\* holds X and the analysis of stage 1, and the tech stack stage 3 presents is
\* the tech stack of that analysis.
C17_RefinementStartsFromSelection ==
  [][lastOp'.op = "handleProceed" =>
       LET carried == (StepContent(Project[1], 2))'
       IN /\ currentStepIndex' = 2
          /\ carried.selectedIdea = selectedIdea
          /\ carried.analysis = StepContent(Project[1], 1).analysis
          /\ carried.analysis # None
          /\ refinedIdea' = selectedIdea
          /\ refinedTechStack' = Some(carried.analysis[1].techStack)]_vars

\* Stage 2 was just completed with idea 2 of an analysis whose tech stack is 1.
C17_ProceededWithChosenIdea ==
  /\ lastOp.op = "handleProceed"
  /\ currentStepIndex = 2
  /\ refinedIdea = Some(2)
  /\ refinedTechStack = Some(1)


\* C18: when an auto-saved field holds a value that its onSave has not been
\* invoked with, then, the field staying mounted, either the value changes
\* again or onSave is eventually invoked with it, whatever renders and edits of
\* other fields happen before the timeout fires.
C18_LatestValueEventuallySaved ==
  \A key \in AutoSaveKeys : \A value \in FieldValues :
    (fieldValue[key] = value /\ savedValue[key] # Some(value)
       /\ (value # InitialFieldValue \/ savedValue[key] # None))
      ~> (fieldValue[key] # value \/ savedValue[key] = Some(value))


RECURSIVE NoNullLeaf(_)
NoNullLeaf(v) ==
  IF Nullish(v) THEN FALSE
  ELSE IF v.tag = "array" THEN \A i \in 1..Len(v.items) : NoNullLeaf(v.items[i])
  ELSE IF v.tag = "object" THEN \A key \in DOMAIN v.fields : NoNullLeaf(v.fields[key])
  ELSE TRUE

\* C19: for every input object normalizePrdData returns without throwing, and
\* the record it returns has summary, personas, features, techStack and
\* uiDesign with no undefined or null leaf in them, nor in the implementation
\* plan when there is one.
C19_NormalizerTotal ==
  normalized # NotCalled =>
    /\ ~Threw(normalized)
    /\ \A section \in PrdSectionKeys \ {"implementation"} :
         /\ section \in DOMAIN normalized.fields
         /\ NoNullLeaf(normalized.fields[section])
    /\ normalized.fields.implementation # JUndefined
         => NoNullLeaf(normalized.fields.implementation)

\* C20: normalizePrdData returns every canonical record as it is, string fields
\* empty or not, with or without an implementation plan.
C20_NormalizerIdempotent ==
  (normalized # NotCalled /\ prdInput \in CanonicalRecords) => normalized = prdInput


\* The property of an element as the claims read it: undefined when absent.
Field(element, key) ==
  IF key \in DOMAIN element.fields THEN element.fields[key] ELSE JUndefined

\* A missing field takes the default, a field that is there is kept.
Filled(element, key, default) ==
  IF Nullish(Field(element, key)) THEN JStr(default) ELSE Field(element, key)

\* A list field: an array is kept, a single string is wrapped, a missing one is [].
Wrapped(value) ==
  IF value.tag = "array" THEN value
  ELSE IF value.tag = "string" THEN JArr(<<value>>)
  ELSE JArr(<<>>)

\* The same with the empty string taken as a missing list.
WrappedIfNotEmpty(value) ==
  IF value.tag = "array" THEN value
  ELSE IF value.tag = "string" /\ value.str # "" THEN JArr(<<value>>)
  ELSE JArr(<<>>)

ExpectedPersonas(elements, List(_)) ==
  JArr([i \in 1..Len(elements) |->
         JObj([name |-> Filled(elements[i], "name", "Persona " \o ToString(i)),
               role |-> Filled(elements[i], "role", "N/A"),
               goals |-> List(Field(elements[i], "goals")),
               frustrations |-> List(Field(elements[i], "frustrations"))])])

ExpectedFeatures(elements) ==
  JArr([i \in 1..Len(elements) |->
         JObj([name |-> Filled(elements[i], "name", "N/A"),
               description |-> Filled(elements[i], "description", ""),
               priority |-> Filled(elements[i], "priority", "N/A")])])

NestedUnder(section) ==
  /\ prdInput \in NestedInputs
  /\ section \in DOMAIN prdInput.fields

C22_PreferencesTakePriority ==
  /\ node = "__end__" =>
       \A f \in TechStackFields :
         Truthy(OptGet(agentState.defaultTechStack, f)) =>
           Get(agentState.techStack, f) = Get(agentState.defaultTechStack, f)
  /\ \A i \in 1..Len(prompts) :
       prompts[i].chain = "stack" =>
         /\ i = 2 /\ prompts[1].chain = "idea"
         /\ node \in {"techRecommender", "__end__"}
         /\ prompts[i].ideas = agentState.ideas

\* C23: in Generate PRD the updateStepContent of handleSave has finished before
\* completeStep starts: the two never have an updateProject outstanding at the
\* same time; and when all the writes of the action have finished, step 3 is
\* completed with the refined idea and the refined tech stack as its content, in
\* the store and in the list.
C23_SaveFinishesBeforeCompletion ==
  /\ ~\E i, j \in 1..Len(inFlight) :
        /\ inFlight[i].handler = "handleGeneratePrd" /\ inFlight[i].op = "updateStepContent"
        /\ inFlight[j].handler = "handleGeneratePrd" /\ inFlight[j].op = "completeStep"
  /\ (Quiet /\ lastOp.op = "handleGeneratePrd") =>
       LET stored == FindProject(Map(db, ConvertToUIProject), lastOp.pid)
           listed == FindProject(projects, lastOp.pid)
       IN /\ stored # None /\ listed # None
          /\ \A project \in {stored[1], listed[1]} :
               /\ FindStep(project, 3)[1].status = "completed"
               /\ FindStep(project, 3)[1].content = lastOp.data

\* The name of the project in a list of projects, None when it is not there.
NameIn(list, pid) ==
  LET found == FindProject(list, pid) IN IF found = None THEN None ELSE Some(found[1].name)

\* C24: a completeStep or an updateStepContent never undoes a rename that was
\* persisted before it: when it has finished, the stored name and the displayed
\* name of its project are what they were, also when it belongs to a stage call
\* that was issued before the rename.
C24_RenameSurvivesStepWrites ==
  [][lastOp'.op \in {"analysisResolved", "updateStepContent"} =>
       /\ NameIn(db', lastOp'.pid) = NameIn(db, lastOp'.pid)
       /\ NameIn(projects', lastOp'.pid) = NameIn(projects, lastOp'.pid)]_vars

\* The name, the status and each step's status and content are the same in both.
SameProject(a, b) ==
  /\ a.name = b.name
  /\ a.status = b.status
  /\ Len(a.steps) = Len(b.steps)
  /\ \A j \in 1..Len(a.steps) :
       a.steps[j].status = b.steps[j].status /\ a.steps[j].content = b.steps[j].content

C26_ReselectedIdeaPresented ==
  (/\ lastOp.op = "handleProceed"
   /\ Viewing(3)
   /\ StepContent(Project[1], 3).refinedIdea # None) =>
    refinedIdea = lastOp.data[1].selectedIdea

\* The operations of PRD Generation that update the content of step 4 only: an
\* edit of the PRD, a section regeneration and a full generation that resolve.
ContentOnlyOps == {"handlePrdChange", "regenerateResolved", "generateAllResolved"}

\* C27: once the project has been loaded, a content-only update never changes the
\* viewed step; the view changes by itself only when a step status differs from
\* the previous snapshot; and the view moves from step 4 to step 5 only by
\* handleProceedToNext, the Next Step button.
C27_ContentUpdateKeepsView ==
  [][/\ (lastOp'.op \in ContentOnlyOps /\ prevProjectRef # None) =>
          currentStepIndex' = currentStepIndex
     /\ (/\ lastOp'.op \in ContentOnlyOps \cup {"handleProceedToNext"}
         /\ prevProjectRef # None
         /\ currentStepIndex' # currentStepIndex) =>
          (Project' # None /\ Statuses(Project'[1]) # prevProjectRef[1])
     /\ (/\ Project # None /\ ViewedStep(Project, currentStepIndex) = 4
         /\ Project' # None /\ ViewedStep(Project', currentStepIndex') = 5) =>
          lastOp'.op = "handleProceedToNext"]_vars

\* The project is neither in the list nor in the store.
Gone(pid) == FindProject(projects, pid) = None /\ FindProject(db, pid) = None

\* C28: a project that has been deleted from the store and from the list does not
\* come back by anything but the creation of a project: not by a stage call that
\* resolves after the deletion and calls completeStep, and not by the writes or
\* the setProjects of an auto-save that was outstanding when it was deleted.
C28_DeletedStaysDeleted ==
  [][\A pid \in ProjectIds :
       (Gone(pid) /\ lastOp'.op # "createProject") => Gone(pid)']_vars

\* A stage call resolved, or the updateProject of an auto-save finished, for a
\* project that had been deleted.
C28_FinishedAfterDeletion ==
  /\ lastOp.op \in {"analysisResolved", "handleTextInputSave"}
  /\ Gone(lastOp.pid)
  /\ loaded

\* The pending timeouts of a key.
PendingFor(pending, key) == {t \in pending : t.key = key}

\* C29: every key has at most one pending timeout, and a timeout that fires
\* passes to onSave the value its key is registered with at that time: no value
\* that was superseded, and none of a key that has been unregistered.
C29_OnePendingTimerPerKey ==
  [][/\ \A key \in AutoSaveKeys : Cardinality(PendingFor(timers', key)) <= 1
     /\ \A t \in timers :
          (t \notin timers' /\ Len(saving') = Len(saving) + 1) =>
            /\ fieldsRef[t.key] # None
            /\ fieldsRef[t.key][1].value = t.value]_vars

\* C30: isSaving is true exactly when an onSave call is outstanding.
C30_IndicatorAccurate ==
  isSaving = (saving # <<>>)

====
